---- MODULE Spec2Model ----
(***************************************************************************)
(* Model of the model-validation pipeline of EthAI-Guard's ai_core:        *)
(*   synthetic/generator.py   (case generator)                             *)
(*   validation/validator.py  (evaluation harness)                         *)
(*   validation/report.py     (report synthesizer)                         *)
(*   routers/validation.py    (the wiring of the above)                    *)
(*                                                                         *)
(* Python dictionaries are records or functions over their key set, lists  *)
(* are sequences.  A call of the random module is a nondeterministic       *)
(* choice among the values the call can return; random.randint(a, b) on an *)
(* empty range raises ValueError, which the model records in the pc of the *)
(* caller.  Floating-point values are exact rationals [n, d].              *)
(*                                                                         *)
(* The module holds several specifications over the same variables, one    *)
(* per component; each leaves the variables of the others unchanged.       *)
(***************************************************************************)
EXTENDS Integers, Sequences, FiniteSets, TLC

VARIABLES
    \* _generate_regular_case / _generate_edge_case: one call
    case_pc,                \* "call", "returned" or "raised"
    case,                   \* the case the call returned
    \* generate_synthetic_cases
    gen_pc,                 \* "regular", "edge", "shuffle", "returned" or "raised"
    count,                  \* argument count
    include_edge_cases,     \* argument include_edge_cases
    cases,                  \* the list cases
    \* _add_noise_to_case: one call
    noise_pc,               \* "call" or "returned"
    noise_case,             \* argument case
    noisy_case,             \* the case returned
    \* run_validation, and what validate_model does with its result
    val_pc,                 \* "original", "noisy", "returned", "summarized", "reported"
    synthetic_cases,        \* argument synthetic_cases
    include_stability_test, \* argument include_stability_test
    results,                \* the list results
    noisy_cases,            \* the list noisy_cases
    noisy_results,          \* the list noisy_results
    validation_result,      \* the dictionary validation_result
    calls,                  \* the calls of model_func so far, with what each did
    validation_summary,     \* validate_model: extract_validation_summary's result
    pipeline_report,        \* validate_model: the report's fields that do not read the metrics
    \* generate_validation_report: one call
    report_pc,              \* "call" or "returned"
    metrics,                \* argument metrics
    synthetic_stats,        \* argument synthetic_stats
    summary,                \* argument validation_summary
    report,                 \* the dictionary returned
    \* _calculate_confidence_score: one call
    conf_pc,                \* "call" or "returned"
    conf_total,             \* argument total_cases
    conf_successful,        \* argument successful_evals
    conf_score,             \* the value returned
    \* validation/metrics.py: one call of one metric function
    metric_pc,              \* "call", "returned" or "raised"
    metric_fn,              \* the function called
    results_original,       \* argument results (results_original of the stability metric)
    results_noisy,          \* argument results_noisy
    sensitive_attr,         \* argument sensitive_attr
    metric_result,          \* the dictionary returned
    \* two runs of generate_synthetic_cases under a seeded random module
    rng,                    \* the state of the module random: the seed and the draws made
    clock,                  \* the wall clock read by datetime.now()
    runs,                   \* the populations returned so far, each with the state it started in
    \* routers/analyze.py: one request to POST /ai_core/analyze
    analyze_pc,             \* "request" or "responded"
    req_data,               \* req.data: column name -> the column
    trained_on,             \* what train_quick_model was called with
    stored,                 \* the documents store_analysis was called with
    response                \* the response of the endpoint

caseVars == <<case_pc, case>>
genVars == <<gen_pc, count, include_edge_cases, cases>>
noiseVars == <<noise_pc, noise_case, noisy_case>>
valVars == <<val_pc, synthetic_cases, include_stability_test, results, noisy_cases,
             noisy_results, validation_result, calls, validation_summary, pipeline_report>>
reportVars == <<report_pc, metrics, synthetic_stats, summary, report>>
confVars == <<conf_pc, conf_total, conf_successful, conf_score>>
metricVars == <<metric_pc, metric_fn, results_original, results_noisy, sensitive_attr,
                metric_result>>
reproVars == <<rng, clock, runs>>
analyzeVars == <<analyze_pc, req_data, trained_on, stored, response>>
serviceVars == <<reproVars, analyzeVars>>
analysisVars == <<confVars, metricVars, serviceVars>>
vars == <<caseVars, genVars, noiseVars, valVars, reportVars, analysisVars>>

(***************************************************************************)
(* Bounds of the model.                                                    *)
(***************************************************************************)
\* generate_synthetic_cases is called with every count in 1..MaxCount
MaxCount == 12
\* and with CapCount, a count whose tenth exceeds the cap of 20 edge cases
CapCount == 210
\* case identifiers given to a single call of _generate_regular_case
MaxCaseId == 1
\* run_validation is called with every list of at most MaxCases sample cases
MaxCases == 2
\* generate_validation_report is called with every battery of at most MaxMetrics metrics
MaxMetrics == 2
\* the totals up to which SpecConfidence draws every total_cases
MaxTotal == 12
\* the longest result list SpecMetrics draws element by element
MaxResults == 3
\* the largest group of the populations SpecMetrics builds from group counts
MaxGroup == 5

(***************************************************************************)
(* Arithmetic helpers.                                                     *)
(***************************************************************************)
Min(a, b) == IF a <= b THEN a ELSE b

Max(a, b) == IF a >= b THEN a ELSE b

\* Python's None
None == "None"

(***************************************************************************)
(* synthetic/generator.py: the attribute taxonomy.                         *)
(***************************************************************************)
AGE_GROUPS == {<<18, 25>>, <<26, 35>>, <<36, 45>>, <<46, 55>>, <<56, 65>>, <<66, 80>>}

ECONOMIC_STATUS == {"low_income", "lower_middle", "middle", "upper_middle", "high_income"}

EMPLOYMENT_STATUS == {"employed", "unemployed", "self_employed", "student", "retired"}

EDUCATION_LEVELS == {"high_school", "some_college", "bachelor", "master", "doctorate"}

EDGE_TYPES == {"very_young_high_income", "very_old_low_income", "high_income_bad_credit",
               "low_income_excellent_credit", "multiple_disadvantages",
               "extreme_loan_amount", "unusual_combination"}

(***************************************************************************)
(* random.randint(a, b): the values a call can return.  The model draws    *)
(* both ends of the range and the probe values inside it; an empty range   *)
(* has no value to return (the call raises ValueError).                    *)
(***************************************************************************)
RandIntP(a, b, probes) == IF a > b THEN {} ELSE {a, b} \cup {p \in probes : a < p /\ p < b}

RandInt(a, b) == RandIntP(a, b, {})

\* ages around the thresholds 22, 25 of _generate_regular_case
AgeProbes == {21, 22, 24}

\* incomes around the smallest income whose loan range is not empty
IncomeProbes == {1, 1249, 1250}

\* _generate_income: the incomes it can return
GenerateIncome(economic_status, employment_status) ==
    IF employment_status = "unemployed" THEN RandIntP(0, 15000, IncomeProbes)
    ELSE IF employment_status = "student" THEN RandInt(5000, 30000)
    ELSE IF employment_status = "retired" THEN RandInt(20000, 80000)
    ELSE CASE economic_status = "low_income" -> RandInt(15000, 35000)
           [] economic_status = "lower_middle" -> RandInt(35000, 55000)
           [] economic_status = "middle" -> RandInt(55000, 85000)
           [] economic_status = "upper_middle" -> RandInt(85000, 150000)
           [] economic_status = "high_income" -> RandInt(150000, 500000)
           [] OTHER -> RandInt(40000, 80000)

\* _generate_credit_score: the scores it can return
GenerateCreditScore(economic_status) ==
    CASE economic_status = "low_income" -> RandInt(500, 680)
      [] economic_status = "lower_middle" -> RandInt(600, 720)
      [] economic_status = "middle" -> RandInt(650, 760)
      [] economic_status = "upper_middle" -> RandInt(700, 820)
      [] economic_status = "high_income" -> RandInt(720, 850)
      [] OTHER -> RandInt(600, 750)

\* _generate_loan_amount: the range random.randint is called with
\* (int(income * 0.3) is the floor of 3 * income / 10 for every income of the model)
LoanRange(income) ==
    IF income = 0 THEN <<5000, 20000>>
    ELSE <<Max(5000, (income * 3) \div 10), income * 4>>

\* _generate_loan_amount: the amounts it can return; {} when randint raises
GenerateLoanAmount(income) == RandInt(LoanRange(income)[1], LoanRange(income)[2])

\* the employment statuses when the branch for the young is not taken
EmploymentWithoutYouthBranch(age) ==
    IF age > 65 THEN {"retired", "employed"}
    ELSE EMPLOYMENT_STATUS

\* the employment statuses line 62-66 can leave in employment for an age
EmploymentFor(age) ==
    IF age < 22 THEN {"student", "employed", "unemployed"}
    ELSE IF age > 65 THEN {"retired", "employed"}
    ELSE EMPLOYMENT_STATUS

\* the economic statuses line 68-72 can leave in economic for an employment
EconomicFor(employment) ==
    IF employment = "unemployed" THEN {"low_income", "lower_middle"}
    ELSE IF employment = "retired" THEN {"lower_middle", "middle", "upper_middle"}
    ELSE ECONOMIC_STATUS

\* the education levels line 74-76 can leave in education for an age
EducationFor(age) ==
    IF age < 25 THEN {"high_school", "some_college", "bachelor"}
    ELSE EDUCATION_LEVELS

\* f"synthetic_{case_id}" and f"synthetic_edge_{case_id}"
CaseIdStr(prefix, case_id) == <<prefix, case_id>>

\* the ages of _generate_regular_case: a group, then an age of the group
RegularAges == UNION {RandIntP(g[1], g[2], AgeProbes) : g \in AGE_GROUPS}

\* the record _generate_regular_case returns (line 83-107); the independent
\* draws of gender, ethnicity, disability, marital status, loan purpose,
\* loan term and timestamp are left out of this record
RegularCase(case_id, age, employment, economic, education, income, credit_score, loan_amount, existing_debt, savings) ==
    [case_id |-> CaseIdStr("synthetic", case_id),
     applicant |-> [age |-> age, education |-> education],
     financial |-> [employment_status |-> employment,
                    economic_status |-> economic,
                    annual_income |-> income,
                    credit_score |-> credit_score,
                    existing_debt |-> existing_debt,
                    savings |-> savings],
     request |-> [loan_amount |-> loan_amount]]

\* the existing debts line 99 can draw
DebtFor(income) == IF income > 0 THEN RandInt(0, income \div 2) ELSE {0}

\* the savings line 100 can draw
SavingsFor(income) == RandInt(0, income * 2)

\* _generate_regular_case raises when some draw of age, employment, economic
\* status and income leaves random.randint of _generate_loan_amount no value
RegularCaseRaises ==
    \E age \in RegularAges : \E employment \in EmploymentFor(age) :
        \E economic \in EconomicFor(employment) :
            \E income \in GenerateIncome(economic, employment) :
                GenerateLoanAmount(income) = {}

(***************************************************************************)
(* _generate_edge_case: the values each scenario draws for the fields it   *)
(* overwrites; a field the scenario leaves alone keeps the base value.     *)
(***************************************************************************)
EdgeAges(edge_type, base) ==
    CASE edge_type = "very_young_high_income" -> RandInt(18, 23)
      [] edge_type = "very_old_low_income" -> RandInt(75, 85)
      [] edge_type = "multiple_disadvantages" -> RandInt(18, 22)
      [] edge_type = "unusual_combination" -> RandInt(70, 80)
      [] OTHER -> {base.applicant.age}

EdgeIncomes(edge_type, base) ==
    CASE edge_type = "very_young_high_income" -> RandInt(150000, 300000)
      [] edge_type = "very_old_low_income" -> RandInt(15000, 30000)
      [] edge_type = "high_income_bad_credit" -> RandInt(120000, 250000)
      [] edge_type = "low_income_excellent_credit" -> RandInt(25000, 40000)
      [] edge_type = "multiple_disadvantages" -> RandInt(0, 20000)
      [] edge_type = "extreme_loan_amount" -> RandInt(200000, 500000)
      [] OTHER -> {base.financial.annual_income}

\* line 137, 142, 151 with the lowest score of a scenario below the scale
EdgeCreditScoresBelowScale(edge_type, base) ==
    CASE edge_type = "high_income_bad_credit" -> RandInt(250, 550)
      [] edge_type = "low_income_excellent_credit" -> RandInt(780, 850)
      [] edge_type = "multiple_disadvantages" -> RandInt(300, 600)
      [] OTHER -> {base.financial.credit_score}

EdgeCreditScores(edge_type, base) ==
    CASE edge_type = "high_income_bad_credit" -> RandInt(300, 550)
      [] edge_type = "low_income_excellent_credit" -> RandInt(780, 850)
      [] edge_type = "multiple_disadvantages" -> RandInt(300, 600)
      [] OTHER -> {base.financial.credit_score}

EdgeLoanAmounts(edge_type, base) ==
    CASE edge_type = "extreme_loan_amount" -> RandInt(500000, 2000000)
      [] OTHER -> {base.request.loan_amount}

\* the assignments of the scenario's branch (line 124-161) that draw nothing
EdgeEmployment(edge_type, base) ==
    CASE edge_type = "very_old_low_income" -> "retired"
      [] edge_type = "multiple_disadvantages" -> "unemployed"
      [] edge_type = "unusual_combination" -> "student"
      [] OTHER -> base.financial.employment_status

EdgeEconomic(edge_type, base) ==
    CASE edge_type = "very_young_high_income" -> "high_income"
      [] edge_type = "very_old_low_income" -> "low_income"
      [] edge_type = "multiple_disadvantages" -> "low_income"
      [] OTHER -> base.financial.economic_status

EdgeEducation(edge_type, base) ==
    CASE edge_type = "unusual_combination" -> "doctorate"
      [] OTHER -> base.applicant.education

\* int(annual_income * 0.8) of the overwritten income
EdgeDebt(edge_type, base, income) ==
    CASE edge_type = "high_income_bad_credit" -> (income * 8) \div 10
      [] edge_type = "low_income_excellent_credit" -> 0
      [] OTHER -> base.financial.existing_debt

\* the case _generate_edge_case returns (line 122-166) from the regular case base
EdgeCase(base, case_id, edge_type, age, income, credit_score, loan_amount) ==
    [case_id |-> CaseIdStr("synthetic_edge", case_id),
     edge_case |-> edge_type,
     applicant |-> [age |-> age, education |-> EdgeEducation(edge_type, base)],
     financial |-> [employment_status |-> EdgeEmployment(edge_type, base),
                    economic_status |-> EdgeEconomic(edge_type, base),
                    annual_income |-> income,
                    credit_score |-> credit_score,
                    existing_debt |-> EdgeDebt(edge_type, base, income),
                    savings |-> base.financial.savings],
     request |-> [loan_amount |-> loan_amount]]

NoCase == [case_id |-> CaseIdStr("none", 0)]

ConfIdle ==
    conf_pc = "idle" /\ conf_total = 0 /\ conf_successful = 0 /\ conf_score = [n |-> 0, d |-> 1]

MetricIdle ==
    /\ metric_pc = "idle"
    /\ metric_fn = "none"
    /\ results_original = <<>>
    /\ results_noisy = <<>>
    /\ sensitive_attr = "none"
    /\ metric_result = [metric_name |-> "none"]

ReproIdle == rng = [seed |-> 0, position |-> 0] /\ clock = 0 /\ runs = <<>>

AnalyzeIdle ==
    /\ analyze_pc = "idle"
    /\ req_data = <<>>
    /\ trained_on = <<>>
    /\ stored = <<>>
    /\ response = [status_code |-> 0]

ServiceIdle == ReproIdle /\ AnalyzeIdle

AnalysisIdle == ConfIdle /\ MetricIdle /\ ServiceIdle

(***************************************************************************)
(* SpecCase: one call of _generate_regular_case or of _generate_edge_case  *)
(* with every outcome of its draws.                                        *)
(***************************************************************************)
GenIdle == gen_pc = "idle" /\ count = 0 /\ include_edge_cases = FALSE /\ cases = <<>>

CaseIdle == case_pc = "idle" /\ case = NoCase

NoiseIdle == noise_pc = "idle" /\ noise_case = NoCase /\ noisy_case = NoCase

ValIdle ==
    /\ val_pc = "idle"
    /\ synthetic_cases = <<>>
    /\ include_stability_test = FALSE
    /\ results = <<>>
    /\ noisy_cases = <<>>
    /\ noisy_results = <<>>
    /\ validation_result = [total_cases |-> 0]
    /\ calls = <<>>
    /\ validation_summary = [total |-> 0]
    /\ pipeline_report = [confidence_score |-> [n |-> 0, d |-> 1]]

ReportIdle ==
    /\ report_pc = "idle"
    /\ metrics = [metrics |-> <<>>]
    /\ synthetic_stats = [total_cases |-> 0]
    /\ summary = [total |-> 0]
    /\ report = [status |-> "none"]

InitCase == case_pc = "call" /\ case = NoCase /\ GenIdle /\ NoiseIdle /\ ValIdle /\ ReportIdle /\ AnalysisIdle

\* _generate_regular_case(case_id) returning base
ReturnsRegular(case_id, base) ==
    \E age \in RegularAges : \E employment \in EmploymentFor(age) :
      \E economic \in EconomicFor(employment) :
        \E education \in EducationFor(age) :
          \E income \in GenerateIncome(economic, employment) :
            \E credit_score \in GenerateCreditScore(economic) :
              \E loan_amount \in GenerateLoanAmount(income) :
                \E existing_debt \in DebtFor(income) :
                  \E savings \in SavingsFor(income) :
                    base = RegularCase(case_id, age, employment, economic, education,
                                       income, credit_score, loan_amount,
                                       existing_debt, savings)

GenerateRegularCase ==
    /\ case_pc = "call"
    /\ \E case_id \in 0..MaxCaseId :
        \/ ReturnsRegular(case_id, case') /\ case_pc' = "returned"
        \/ RegularCaseRaises /\ case' = case /\ case_pc' = "raised"
    /\ UNCHANGED <<genVars, noiseVars, valVars, reportVars, analysisVars>>

GenerateEdgeCase ==
    /\ case_pc = "call"
    /\ \E case_id \in 0..MaxCaseId : \E edge_type \in EDGE_TYPES :
        \/ \E age0 \in RegularAges : \E employment \in EmploymentFor(age0) :
             \E economic \in EconomicFor(employment) :
               \E education \in EducationFor(age0) :
                 \E income0 \in GenerateIncome(economic, employment) :
                   \E credit0 \in GenerateCreditScore(economic) :
                     \E loan0 \in GenerateLoanAmount(income0) :
                       \E existing_debt \in DebtFor(income0) :
                         \E savings \in SavingsFor(income0) :
                           LET base == RegularCase(case_id, age0, employment, economic,
                                                   education, income0, credit0, loan0,
                                                   existing_debt, savings)
                           IN \E age \in EdgeAges(edge_type, base) :
                                \E income \in EdgeIncomes(edge_type, base) :
                                  \E credit_score \in EdgeCreditScores(edge_type, base) :
                                    \E loan_amount \in EdgeLoanAmounts(edge_type, base) :
                                      /\ case' = EdgeCase(base, case_id, edge_type, age,
                                                          income, credit_score, loan_amount)
                                      /\ case_pc' = "returned"
        \/ RegularCaseRaises /\ case' = case /\ case_pc' = "raised"
    /\ UNCHANGED <<genVars, noiseVars, valVars, reportVars, analysisVars>>

NextCase == GenerateRegularCase \/ GenerateEdgeCase

SpecCase == InitCase /\ [][NextCase]_vars

(***************************************************************************)
(* SpecGen: generate_synthetic_cases(count, include_edge_cases).           *)
(*                                                                         *)
(* The list cases keeps of each appended case what the function and the    *)
(* readers of its result use of it: the identifier and whether the key     *)
(* "edge_case" is in the case.  The other fields of an appended case are   *)
(* those of SpecCase.  The loop index i of line 42 is Len(cases), that of  *)
(* line 47 is Len(cases) - regular_case_count.                             *)
(***************************************************************************)
Counts == (1..MaxCount) \cup {CapCount}

\* line 38 without the cap of 20
EdgeCaseCountUncapped(n, with_edge_cases) == IF with_edge_cases THEN n \div 10 ELSE 0

\* line 38
EdgeCaseCount(n, with_edge_cases) == IF with_edge_cases THEN Min(n \div 10, 20) ELSE 0

\* line 39
RegularCaseCount(n, with_edge_cases) == n - EdgeCaseCount(n, with_edge_cases)

\* what cases keeps of the case _generate_regular_case(case_id) returns
RegularSummary(case_id) ==
    [case_id |-> CaseIdStr("synthetic", case_id), has_edge_case |-> FALSE]

\* what cases keeps of the case _generate_edge_case(case_id) returns
EdgeSummary(case_id) ==
    [case_id |-> CaseIdStr("synthetic_edge", case_id), has_edge_case |-> TRUE]

Reverse(s) == [k \in 1..Len(s) |-> s[Len(s) + 1 - k]]

RotateLeft(s) == IF s = <<>> THEN s ELSE Append(Tail(s), Head(s))

SwapEnds(s) ==
    [k \in 1..Len(s) |-> IF k = 1 THEN s[Len(s)] ELSE IF k = Len(s) THEN s[1] ELSE s[k]]

\* a draw with replacement in the place of the shuffle
SampleWithReplacement(s) == {s, [k \in 1..Len(s) |-> s[1]]}

\* random.shuffle(s): the orders the model draws among the permutations of s
ShuffleDraws(s) == {s, Reverse(s), RotateLeft(s), SwapEnds(s)}

InitGen ==
    /\ gen_pc = "regular"
    /\ count \in Counts
    /\ include_edge_cases \in BOOLEAN
    /\ cases = <<>>
    /\ CaseIdle /\ NoiseIdle /\ ValIdle /\ ReportIdle /\ AnalysisIdle

\* line 42-43, one iteration
AppendRegularCase ==
    /\ gen_pc = "regular"
    /\ Len(cases) < RegularCaseCount(count, include_edge_cases)
    /\ \/ cases' = Append(cases, RegularSummary(Len(cases))) /\ gen_pc' = gen_pc
       \/ RegularCaseRaises /\ gen_pc' = "raised" /\ cases' = cases
    /\ UNCHANGED <<count, include_edge_cases, caseVars, noiseVars, valVars, reportVars, analysisVars>>

\* line 46: the regular loop is over
EndRegularCases ==
    /\ gen_pc = "regular"
    /\ Len(cases) = RegularCaseCount(count, include_edge_cases)
    /\ gen_pc' = IF include_edge_cases THEN "edge" ELSE "shuffle"
    /\ UNCHANGED <<count, include_edge_cases, cases, caseVars, noiseVars, valVars, reportVars, analysisVars>>

\* line 47-48, one iteration
AppendEdgeCase ==
    /\ gen_pc = "edge"
    /\ Len(cases) - RegularCaseCount(count, include_edge_cases)
         < EdgeCaseCount(count, include_edge_cases)
    /\ \/ cases' = Append(cases, EdgeSummary(Len(cases))) /\ gen_pc' = gen_pc
       \/ RegularCaseRaises /\ gen_pc' = "raised" /\ cases' = cases
    /\ UNCHANGED <<count, include_edge_cases, caseVars, noiseVars, valVars, reportVars, analysisVars>>

EndEdgeCases ==
    /\ gen_pc = "edge"
    /\ Len(cases) - RegularCaseCount(count, include_edge_cases)
         = EdgeCaseCount(count, include_edge_cases)
    /\ gen_pc' = "shuffle"
    /\ UNCHANGED <<count, include_edge_cases, cases, caseVars, noiseVars, valVars, reportVars, analysisVars>>

\* line 51-53
ShuffleAndReturn ==
    /\ gen_pc = "shuffle"
    /\ cases' \in ShuffleDraws(cases)
    /\ gen_pc' = "returned"
    /\ UNCHANGED <<count, include_edge_cases, caseVars, noiseVars, valVars, reportVars, analysisVars>>

NextGen ==
    \/ AppendRegularCase
    \/ EndRegularCases
    \/ AppendEdgeCase
    \/ EndEdgeCases
    \/ ShuffleAndReturn

SpecGen == InitGen /\ [][NextGen]_vars

\* the cases of a list that carry an edge-case tag
EdgeTagged(s) == {k \in 1..Len(s) : s[k].has_edge_case}

(***************************************************************************)
(* C1: case generation cannot fail: for every positive count and either    *)
(* value of include_edge_cases, no outcome of the draws makes              *)
(* generate_synthetic_cases raise.                                         *)
(***************************************************************************)
C1_GenerationNeverRaises == gen_pc # "raised"

(***************************************************************************)
(* C2: for every positive count generate_synthetic_cases returns exactly   *)
(* count cases; at most min(count // 10, 20) of them carry an edge-case    *)
(* tag when include_edge_cases is true, and none when it is false.         *)
(***************************************************************************)
C2_ReturnedCounts ==
    gen_pc = "returned" =>
        /\ Len(cases) = count
        /\ Cardinality(EdgeTagged(cases)) <= Min(count \div 10, 20)
        /\ ~include_edge_cases => EdgeTagged(cases) = {}

\* a returned population whose tenth exceeds the cap and that holds 20 edge cases
C2_Witness ==
    /\ gen_pc = "returned"
    /\ include_edge_cases
    /\ count \div 10 > 20
    /\ Cardinality(EdgeTagged(cases)) = 20

(***************************************************************************)
(* C3: every generated case, regular or edge, has credit score in          *)
(* [300, 850], age in [18, 100], annual income >= 0 and non-negative       *)
(* existing debt and savings.                                              *)
(***************************************************************************)
C3_CaseWithinBounds ==
    case_pc = "returned" =>
        /\ case.financial.credit_score >= 300 /\ case.financial.credit_score <= 850
        /\ case.applicant.age >= 18 /\ case.applicant.age <= 100
        /\ case.financial.annual_income >= 0
        /\ case.financial.existing_debt >= 0
        /\ case.financial.savings >= 0

\* an edge case at the lowest credit score and the highest age an edge scenario draws
C3_Witness ==
    /\ case_pc = "returned"
    /\ "edge_case" \in DOMAIN case
    /\ case.edge_case = "very_old_low_income"
    /\ case.applicant.age = 85
    /\ case.financial.credit_score = 500

(***************************************************************************)
(* Exact rationals [n, d] with d > 0 and n >= 0, in lowest terms, for the  *)
(* floating-point values of the program.                                   *)
(***************************************************************************)
RECURSIVE GCD(_, _)
GCD(a, b) == IF b = 0 THEN a ELSE GCD(b, a % b)

Rat(n, d) == LET g == GCD(n, d) IN [n |-> n \div g, d |-> d \div g]

RAdd(x, y) == Rat(x.n * y.d + y.n * x.d, x.d * y.d)

RLe(x, y) == LET g == GCD(x.d, y.d) IN x.n * (y.d \div g) <= y.n * (x.d \div g)

RLt(x, y) == LET g == GCD(x.d, y.d) IN x.n * (y.d \div g) < y.n * (x.d \div g)

RMin(x, y) == IF RLe(x, y) THEN x ELSE y

\* dict.get(key, default)
Get(dict, key, default) == IF key \in DOMAIN dict THEN dict[key] ELSE default

(***************************************************************************)
(* validation/validator.py: _add_noise_to_case.                            *)
(*                                                                         *)
(* A draw d holds the outcome of each call of the random module: the three *)
(* factors of random.uniform(0.95, 1.05) and that of                       *)
(* random.uniform(0.97, 1.03) in hundredths, the integer of                *)
(* random.randint(-5, 5) and the element of random.choice([-1, 0, 1]).     *)
(* The result is a new record: copy.deepcopy leaves the argument alone.    *)
(***************************************************************************)
\* int(value * noise_factor) for a factor of pct hundredths
Scaled(value, pct) == (value * pct) \div 100

\* line 103 without the clamp to [300, 850]
NoisyCreditScoreUnclamped(score, noise) == score + noise

\* line 103
NoisyCreditScore(score, noise) == Max(300, Min(850, score + noise))

\* line 109
NoisyAge(age, noise) == Max(18, Min(100, age + noise))

\* line 92-103
NoisyFinancial(financial, d) ==
    [key \in DOMAIN financial |->
        CASE key = "annual_income" -> Scaled(financial[key], d.income_factor)
          [] key = "existing_debt" -> Scaled(financial[key], d.debt_factor)
          [] key = "savings" -> Scaled(financial[key], d.savings_factor)
          [] key = "credit_score" -> NoisyCreditScore(financial[key], d.credit_noise)
          [] OTHER -> financial[key]]

\* line 106-109
NoisyApplicant(applicant, d) ==
    [key \in DOMAIN applicant |->
        IF key = "age" THEN NoisyAge(applicant[key], d.age_noise) ELSE applicant[key]]

\* line 112-115
NoisyRequest(request, d) ==
    [key \in DOMAIN request |->
        IF key = "loan_amount" THEN Scaled(request[key], d.loan_factor) ELSE request[key]]

\* _add_noise_to_case(c) when the random module draws d
AddNoiseToCase(c, d) ==
    [key \in DOMAIN c |->
        CASE key = "financial" -> NoisyFinancial(c[key], d)
          [] key = "applicant" -> NoisyApplicant(c[key], d)
          [] key = "request" -> NoisyRequest(c[key], d)
          [] OTHER -> c[key]]

\* the nested dictionaries a shallow copy of a case shares with the case
SharedWithShallowCopy == {"applicant", "financial", "request"}

\* line 89, copy.deepcopy(case): the keys of noisy_case whose dictionary is
\* the very object the case holds under that key
SharedWithCopy == {}

\* the case passed to _add_noise_to_case, after the call: the writes of
\* line 92-115 go to the dictionaries of noisy_case
CaseAfterNoise(c, d) ==
    [key \in DOMAIN c |->
        IF key \in SharedWithCopy THEN AddNoiseToCase(c, d)[key] ELSE c[key]]

\* validator.py line 56: the list cases after the comprehension
CasesAfterNoise(all_cases, draws) ==
    [k \in 1..Len(all_cases) |-> CaseAfterNoise(all_cases[k], draws[k])]

\* the draws of one call: every integer noise, the ends and the middle of each factor
NoiseDraws ==
    [income_factor : {95, 100, 105}, debt_factor : {95, 105}, savings_factor : {95, 105},
     credit_noise : (0 - 5)..5, age_noise : {0 - 1, 0, 1}, loan_factor : {97, 100, 103}]

\* the draws the model makes within run_validation: all noise down, none, all up
HarnessNoiseDraws ==
    {[income_factor |-> 95, debt_factor |-> 95, savings_factor |-> 95,
      credit_noise |-> 0 - 5, age_noise |-> 0 - 1, loan_factor |-> 97],
     [income_factor |-> 105, debt_factor |-> 105, savings_factor |-> 105,
      credit_noise |-> 5, age_noise |-> 1, loan_factor |-> 103]}

\* a case as run_validation receives it
SampleCase(case_id, age, gender, ethnicity, income, credit_score) ==
    [case_id |-> case_id,
     applicant |-> [age |-> age, gender |-> gender, ethnicity |-> ethnicity],
     financial |-> [annual_income |-> income, credit_score |-> credit_score,
                    existing_debt |-> income \div 4, savings |-> 1000],
     request |-> [loan_amount |-> 20000]]

\* the credit scores and ages of the arguments of SpecNoise: the ends of both
\* scales, values within reach of an end, and one far from both
NoiseCreditScores == {300, 302, 305, 306, 600, 844, 845, 848, 850}

NoiseAges == {18, 19, 50, 99, 100}

(***************************************************************************)
(* SpecNoise: one call of _add_noise_to_case.                              *)
(***************************************************************************)
InitNoise ==
    /\ noise_pc = "call"
    /\ \E credit_score \in NoiseCreditScores : \E age \in NoiseAges :
         noise_case = SampleCase(CaseIdStr("synthetic", 0), age, "female", "hispanic",
                                 50000, credit_score)
    /\ noisy_case = NoCase
    /\ CaseIdle /\ GenIdle /\ ValIdle /\ ReportIdle /\ AnalysisIdle

AddNoise ==
    /\ noise_pc = "call"
    /\ \E d \in NoiseDraws : noisy_case' = AddNoiseToCase(noise_case, d)
    /\ noise_pc' = "returned"
    /\ UNCHANGED <<noise_case, caseVars, genVars, valVars, reportVars, analysisVars>>

NextNoise == AddNoise

SpecNoise == InitNoise /\ [][NextNoise]_vars

(***************************************************************************)
(* C6: _add_noise_to_case yields a noisy credit score in                   *)
(* [max(300, c - 5), min(850, c + 5)] and a noisy age in                   *)
(* [max(18, a - 1), min(100, a + 1)] for the original values c and a, so   *)
(* that an original at an end of its scale stays on the scale.             *)
(***************************************************************************)
C6_NoiseWithinBounds ==
    noise_pc = "returned" =>
        LET c == noise_case.financial.credit_score
            a == noise_case.applicant.age
            nc == noisy_case.financial.credit_score
            na == noisy_case.applicant.age
        IN /\ nc >= Max(300, c - 5) /\ nc <= Min(850, c + 5)
           /\ na >= Max(18, a - 1) /\ na <= Min(100, a + 1)
           /\ nc >= 300 /\ nc <= 850 /\ na >= 18 /\ na <= 100

\* the top credit score drawn +5 stays 850, and the top age drawn +1 stays 100
C6_Witness ==
    /\ noise_pc = "returned"
    /\ noise_case.financial.credit_score = 850
    /\ noisy_case.financial.credit_score = 850
    /\ noise_case.applicant.age = 100
    /\ noisy_case.applicant.age = 100
    /\ noisy_case.financial.annual_income = 52500

(***************************************************************************)
(* validation/validator.py: run_validation.                                *)
(*                                                                         *)
(* model_func is any decision function: each call either raises or returns *)
(* one of the decision signals of Signals.  calls logs, in order, the      *)
(* argument of each call and what the call did.                            *)
(***************************************************************************)
LowSignal == [risk_score |-> 20, risk_level |-> "low", triggered_rules |-> <<>>]

HighSignal ==
    [risk_score |-> 80, risk_level |-> "high", triggered_rules |-> <<"low_credit_score">>]

Signals == {LowSignal, HighSignal}

\* str(e) of the exception a call raises
ErrorText == "decision function failed"

\* line 42: the output recorded for a call that raised
FallbackOutput(msg) ==
    [error |-> msg, risk_score |-> 50, risk_level |-> "medium", triggered_rules |-> <<>>]

\* line 34-38
SuccessResult(c, output) ==
    [input |-> c, output |-> output,
     case_id |-> Get(c, "case_id", CaseIdStr("unknown", 0))]

\* line 40-45 without the "error" key of the result
FailedResultUnflagged(c, msg) ==
    [input |-> c, output |-> FallbackOutput(msg),
     case_id |-> Get(c, "case_id", CaseIdStr("unknown", 0))]

\* line 40-45
FailedResult(c, msg) ==
    [input |-> c, output |-> FallbackOutput(msg),
     case_id |-> Get(c, "case_id", CaseIdStr("unknown", 0)), error |-> msg]

\* sum(1 for r in results if "error" in r)
FailedCount(rs) == Cardinality({k \in 1..Len(rs) : "error" \in DOMAIN rs[k]})

\* sum(1 for r in results if "error" not in r)
SuccessfulCount(rs) == Cardinality({k \in 1..Len(rs) : "error" \notin DOMAIN rs[k]})

\* line 47-52
ValidationResult(rs, all_cases) ==
    [results |-> rs,
     total_cases |-> Len(all_cases),
     successful_evaluations |-> SuccessfulCount(rs),
     failed_evaluations |-> FailedCount(rs)]

\* line 56 with the twins in the reverse order of the cases
NoisyCasesReversed(all_cases, draws) ==
    [k \in 1..Len(all_cases) |->
        AddNoiseToCase(all_cases[Len(all_cases) + 1 - k], draws[k])]

\* line 56: the noisy twin of every case, in the order of the cases
NoisyCases(all_cases, draws) ==
    [k \in 1..Len(all_cases) |-> AddNoiseToCase(all_cases[k], draws[k])]

\* the cases the model hands to run_validation: a regular case at the top of
\* both scales, an edge case at the bottom of the credit scale, and one between
HarnessCases ==
    {SampleCase(CaseIdStr("synthetic", 0), 18, "male", "caucasian", 50000, 850),
     SampleCase(CaseIdStr("synthetic_edge", 1), 85, "female", "hispanic", 20000, 300)
        @@ [edge_case |-> "very_old_low_income"],
     SampleCase(CaseIdStr("synthetic", 2), 40, "female", "asian", 90000, 700)}

RECURSIVE SumOf(_, _)
\* sum(f(x) for x in s), for a sequence s and a field name
SumOf(s, field) == IF s = <<>> THEN 0 ELSE Head(s)[field] + SumOf(Tail(s), field)

\* the elements of a sequence
Range(s) == {s[k] : k \in 1..Len(s)}

\* how many results have an output with the risk level
LevelCount(rs, level) ==
    Cardinality({k \in 1..Len(rs) : Get(rs[k].output, "risk_level", "medium") = level})

\* how often the rule is in the triggered rules of the outputs
RuleCount(rs, rule) ==
    LET hits(k) == {j \in 1..Len(Get(rs[k].output, "triggered_rules", <<>>)) :
                        rs[k].output.triggered_rules[j] = rule}
        RECURSIVE Total(_)
        Total(k) == IF k = 0 THEN 0 ELSE Cardinality(hits(k)) + Total(k - 1)
    IN Total(Len(rs))

RECURSIVE SeqMin(_)
SeqMin(s) == IF Len(s) = 1 THEN s[1] ELSE Min(s[1], SeqMin(Tail(s)))

RECURSIVE SeqMax(_)
SeqMax(s) == IF Len(s) = 1 THEN s[1] ELSE Max(s[1], SeqMax(Tail(s)))

\* extract_validation_summary (validator.py line 120-157)
ExtractValidationSummary(rs) ==
    IF rs = <<>>
    THEN [total |-> 0, risk_distribution |-> <<>>, triggered_rules_summary |-> <<>>]
    ELSE LET levels == {"low", "medium", "high"}
                         \cup {Get(rs[k].output, "risk_level", "medium") : k \in 1..Len(rs)}
             rules == UNION {Range(Get(rs[k].output, "triggered_rules", <<>>)) :
                                k \in 1..Len(rs)}
             risk_scores == [k \in 1..Len(rs) |-> Get(rs[k].output, "risk_score", 50)]
             total_score == SumOf([k \in 1..Len(rs) |-> [v |-> risk_scores[k]]], "v")
         IN [total |-> Len(rs),
             risk_distribution |-> [l \in levels |-> LevelCount(rs, l)],
             triggered_rules_summary |-> [r \in rules |-> RuleCount(rs, r)],
             avg_risk_score |-> Rat(total_score, Len(rs)),
             min_risk_score |-> SeqMin(risk_scores),
             max_risk_score |-> SeqMax(risk_scores)]

\* get_dataset_stats (generator.py line 217-272): the counts; the distributions
\* it adds are not modelled
GetDatasetStats(all_cases) ==
    LET edge == {k \in 1..Len(all_cases) : "edge_case" \in DOMAIN all_cases[k]}
    IN [total_cases |-> Len(all_cases),
        edge_cases_count |-> Cardinality(edge),
        regular_cases_count |-> Len(all_cases) - Cardinality(edge)]

\* line 194-201 with the middle branch starting from 20 points
CoverageScoreDropAt100(total_cases) ==
    IF total_cases >= 500 THEN Rat(50, 1)
    ELSE IF total_cases >= 100
         THEN RAdd(Rat(20, 1), Rat((total_cases - 100) * 30, 400))
         ELSE Rat(total_cases * 30, 100)

\* report.py line 194-201: the coverage component
CoverageScore(total_cases) ==
    IF total_cases >= 500 THEN Rat(50, 1)
    ELSE IF total_cases >= 100
         THEN RAdd(Rat(30, 1), Rat((total_cases - 100) * 20, 400))
         ELSE Rat(total_cases * 30, 100)

\* _calculate_confidence_score (report.py line 179-203)
CalculateConfidenceScore(total_cases, successful_evals) ==
    IF total_cases = 0 THEN Rat(0, 1)
    ELSE RMin(Rat(100, 1),
              RAdd(Rat(successful_evals * 50, total_cases), CoverageScore(total_cases)))

\* generate_validation_report (report.py line 54-75): the fields of report_json
\* that read synthetic_stats and validation_summary
ReportDatasetFields(stats, val_summary) ==
    [synthetic_dataset |->
        [total_cases |-> Get(stats, "total_cases", 0),
         edge_cases |-> Get(stats, "edge_cases", 0),
         distribution |-> Get(stats, "distribution", <<>>)],
     validation_summary |-> val_summary,
     confidence_score |->
        CalculateConfidenceScore(Get(stats, "total_cases", 0),
                                 Get(val_summary, "successful_evaluations", 0))]

CaseLists == UNION {[1..n -> HarnessCases] : n \in 0..MaxCases}

InitVal ==
    /\ val_pc = "original"
    /\ synthetic_cases \in CaseLists
    /\ include_stability_test \in BOOLEAN
    /\ results = <<>>
    /\ noisy_cases = <<>>
    /\ noisy_results = <<>>
    /\ validation_result = [total_cases |-> 0]
    /\ calls = <<>>
    /\ validation_summary = [total |-> 0]
    /\ pipeline_report = [confidence_score |-> [n |-> 0, d |-> 1]]
    /\ CaseIdle /\ GenIdle /\ NoiseIdle /\ ReportIdle /\ AnalysisIdle

\* line 31-45, one iteration: model_func(case) returns a signal or raises
EvaluateCase ==
    /\ val_pc = "original"
    /\ Len(results) < Len(synthetic_cases)
    /\ LET c == synthetic_cases[Len(results) + 1]
       IN \/ \E output \in Signals :
               /\ results' = Append(results, SuccessResult(c, output))
               /\ calls' = Append(calls, [arg |-> c, raised |-> FALSE, output |-> output])
          \/ /\ results' = Append(results, FailedResult(c, ErrorText))
             /\ calls' = Append(calls, [arg |-> c, raised |-> TRUE])
    /\ UNCHANGED <<val_pc, synthetic_cases, include_stability_test, noisy_cases,
                   noisy_results, validation_result, validation_summary, pipeline_report,
                   caseVars, genVars, noiseVars, reportVars, analysisVars>>

\* line 47-56: the first pass is over and the stability pass begins.  The
\* list cases and the "input" of every result are the caller's objects:
\* what _add_noise_to_case writes through a shared dictionary shows in them
BeginStabilityTest ==
    /\ val_pc = "original"
    /\ Len(results) = Len(synthetic_cases)
    /\ include_stability_test /\ results # <<>>
    /\ \E draws \in [1..Len(synthetic_cases) -> HarnessNoiseDraws] :
         LET after == CasesAfterNoise(synthetic_cases, draws)
             aliased == [k \in 1..Len(results) |-> [results[k] EXCEPT !.input = after[k]]]
         IN /\ noisy_cases' = NoisyCases(synthetic_cases, draws)
            /\ synthetic_cases' = after
            /\ results' = aliased
            /\ validation_result' = ValidationResult(aliased, after)
    /\ val_pc' = "noisy"
    /\ UNCHANGED <<include_stability_test, noisy_results, calls,
                   validation_summary, pipeline_report, caseVars, genVars, noiseVars, reportVars, analysisVars>>

\* the return that reports a stability pass which never ran
ReturnFlaggedWithoutStabilityTest ==
    /\ val_pc = "original"
    /\ Len(results) = Len(synthetic_cases)
    /\ ~(include_stability_test /\ results # <<>>)
    /\ validation_result' =
         ValidationResult(results, synthetic_cases) @@ [stability_test_performed |-> TRUE]
    /\ val_pc' = "returned"
    /\ UNCHANGED <<synthetic_cases, include_stability_test, results, noisy_cases,
                   noisy_results, calls, validation_summary, pipeline_report,
                   caseVars, genVars, noiseVars, reportVars, analysisVars>>

\* line 47-55, 77-80: the first pass is over and there is no stability pass
ReturnWithoutStabilityTest ==
    /\ val_pc = "original"
    /\ Len(results) = Len(synthetic_cases)
    /\ ~(include_stability_test /\ results # <<>>)
    /\ validation_result' =
         ValidationResult(results, synthetic_cases) @@ [stability_test_performed |-> FALSE]
    /\ val_pc' = "returned"
    /\ UNCHANGED <<synthetic_cases, include_stability_test, results, noisy_cases,
                   noisy_results, calls, validation_summary, pipeline_report,
                   caseVars, genVars, noiseVars, reportVars, analysisVars>>

\* line 59-73, one iteration
EvaluateNoisyCase ==
    /\ val_pc = "noisy"
    /\ Len(noisy_results) < Len(noisy_cases)
    /\ LET c == noisy_cases[Len(noisy_results) + 1]
       IN \/ \E output \in Signals :
               /\ noisy_results' = Append(noisy_results, SuccessResult(c, output))
               /\ calls' = Append(calls, [arg |-> c, raised |-> FALSE, output |-> output])
          \/ /\ noisy_results' = Append(noisy_results, FailedResult(c, ErrorText))
             /\ calls' = Append(calls, [arg |-> c, raised |-> TRUE])
    /\ UNCHANGED <<val_pc, synthetic_cases, include_stability_test, results, noisy_cases,
                   validation_result, validation_summary, pipeline_report,
                   caseVars, genVars, noiseVars, reportVars, analysisVars>>

\* line 75-76, 80
ReturnWithStabilityTest ==
    /\ val_pc = "noisy"
    /\ Len(noisy_results) = Len(noisy_cases)
    /\ validation_result' =
         validation_result @@ [noisy_results |-> noisy_results,
                               stability_test_performed |-> TRUE]
    /\ val_pc' = "returned"
    /\ UNCHANGED <<synthetic_cases, include_stability_test, results, noisy_cases,
                   noisy_results, calls, validation_summary, pipeline_report,
                   caseVars, genVars, noiseVars, reportVars, analysisVars>>

(***************************************************************************)
(* routers/validation.py, validate_model: what it does with the result of  *)
(* run_validation for the report's confidence score.  get_dataset_stats    *)
(* reads the cases alone and divides by their number, so the steps are     *)
(* those of a non-empty population.  The verdict, the recommendations and  *)
(* the fairness_metrics of the report are those of SpecReport.             *)
(***************************************************************************)
\* validation.py line 151
ExtractSummary ==
    /\ val_pc = "returned"
    /\ synthetic_cases # <<>>
    /\ validation_summary' = ExtractValidationSummary(validation_result.results)
    /\ val_pc' = "summarized"
    /\ UNCHANGED <<synthetic_cases, include_stability_test, results, noisy_cases,
                   noisy_results, validation_result, calls, pipeline_report,
                   caseVars, genVars, noiseVars, reportVars, analysisVars>>

\* validation.py line 72 and 215-221
GenerateReport ==
    /\ val_pc = "summarized"
    /\ pipeline_report' =
         ReportDatasetFields(GetDatasetStats(synthetic_cases), validation_summary)
    /\ val_pc' = "reported"
    /\ UNCHANGED <<synthetic_cases, include_stability_test, results, noisy_cases,
                   noisy_results, validation_result, calls, validation_summary,
                   caseVars, genVars, noiseVars, reportVars, analysisVars>>

NextVal ==
    \/ EvaluateCase
    \/ BeginStabilityTest
    \/ ReturnWithoutStabilityTest
    \/ EvaluateNoisyCase
    \/ ReturnWithStabilityTest
    \/ ExtractSummary
    \/ GenerateReport

SpecVal == InitVal /\ [][NextVal]_vars

\* run_validation has returned
Returned == val_pc \in {"returned", "summarized", "reported"}

\* the calls of the first pass that raised
RaisedOriginal == {k \in 1..Len(synthetic_cases) : calls[k].raised}

(***************************************************************************)
(* C4: per-case failure isolation in run_validation: the run never aborts  *)
(* and returns one result per case; a case whose call raised carries an    *)
(* error description and the fallback signal (risk score 50, level medium, *)
(* no triggered rules), every other case carries the function's output     *)
(* unchanged; failed_evaluations is the number of raising cases and        *)
(* successful_evaluations + failed_evaluations = total_cases.              *)
(***************************************************************************)
C4_FailureIsolation ==
    /\ val_pc \in {"original", "noisy"} => ENABLED NextVal
    /\ Returned =>
        /\ Len(validation_result.results) = Len(synthetic_cases)
        /\ \A k \in 1..Len(synthetic_cases) :
            LET r == validation_result.results[k]
            IN /\ calls[k].arg = synthetic_cases[k]
               /\ calls[k].raised =>
                    /\ "error" \in DOMAIN r /\ r.error = ErrorText
                    /\ "error" \in DOMAIN r.output
                    /\ r.output.risk_score = 50
                    /\ r.output.risk_level = "medium"
                    /\ r.output.triggered_rules = <<>>
               /\ ~calls[k].raised =>
                    /\ "error" \notin DOMAIN r
                    /\ r.output = calls[k].output
        /\ validation_result.failed_evaluations = Cardinality(RaisedOriginal)
        /\ validation_result.successful_evaluations + validation_result.failed_evaluations
             = validation_result.total_cases
        /\ validation_result.total_cases = Len(synthetic_cases)

\* a returned run of two cases whose first call raised and whose second did not
C4_Witness ==
    /\ val_pc = "returned"
    /\ Len(synthetic_cases) = 2
    /\ calls[1].raised /\ ~calls[2].raised
    /\ validation_result.failed_evaluations = 1
    /\ validation_result.results[2].output = HighSignal

\* noisy is a perturbed twin of original: the same identifier, gender and
\* ethnicity, and every numeric field within the reach of the noise
IsNoisyTwin(original, noisy) ==
    /\ noisy.case_id = original.case_id
    /\ noisy.applicant.gender = original.applicant.gender
    /\ noisy.applicant.ethnicity = original.applicant.ethnicity
    /\ noisy.financial.credit_score - original.financial.credit_score \in (0 - 5)..5
    /\ noisy.applicant.age - original.applicant.age \in (0 - 1)..1
    /\ noisy.financial.annual_income * 100 >= original.financial.annual_income * 94
    /\ noisy.financial.annual_income * 100 <= original.financial.annual_income * 105
    /\ noisy.request.loan_amount * 100 >= original.request.loan_amount * 96
    /\ noisy.request.loan_amount * 100 <= original.request.loan_amount * 103

(***************************************************************************)
(* C5: positional correspondence in run_validation: results has the length *)
(* and order of the input cases, and when the stability pass ran,          *)
(* noisy_results has the length of results and at every index its input is *)
(* the perturbed twin of the case at that index, with the same case_id,    *)
(* gender and ethnicity, also when evaluations of either pass raised.      *)
(***************************************************************************)
C5_PositionalCorrespondence ==
    Returned =>
        /\ Len(validation_result.results) = Len(synthetic_cases)
        /\ \A k \in 1..Len(synthetic_cases) :
            /\ validation_result.results[k].case_id = synthetic_cases[k].case_id
            /\ validation_result.results[k].input = synthetic_cases[k]
        /\ validation_result.stability_test_performed =>
            /\ "noisy_results" \in DOMAIN validation_result
            /\ Len(validation_result.noisy_results) = Len(validation_result.results)
            /\ \A k \in 1..Len(synthetic_cases) :
                /\ validation_result.noisy_results[k].case_id = synthetic_cases[k].case_id
                /\ IsNoisyTwin(synthetic_cases[k], validation_result.noisy_results[k].input)

\* a stability pass over two different cases with a raise in each pass
C5_Witness ==
    /\ val_pc = "returned"
    /\ validation_result.stability_test_performed
    /\ Len(synthetic_cases) = 2
    /\ synthetic_cases[1].case_id # synthetic_cases[2].case_id
    /\ "error" \in DOMAIN validation_result.results[2]
    /\ "error" \in DOMAIN validation_result.noisy_results[1]
    /\ "error" \notin DOMAIN validation_result.noisy_results[2]

(***************************************************************************)
(* C10: in the pipeline as wired, the report's confidence score is         *)
(* 50 * successful_evaluations / total_cases plus the coverage points of   *)
(* the sample size (at most 100), so that a run whose evaluations all      *)
(* succeeded scores higher than one of the same size whose evaluations all *)
(* failed.                                                                 *)
(***************************************************************************)
C10_ConfidenceFromSuccessRate ==
    val_pc = "reported" =>
        pipeline_report.confidence_score =
            RMin(Rat(100, 1),
                 RAdd(Rat(50 * validation_result.successful_evaluations,
                          validation_result.total_cases),
                      CoverageScore(validation_result.total_cases)))

(***************************************************************************)
(* validation/report.py: generate_validation_report.                       *)
(*                                                                         *)
(* A recommendation is a record of its severity prefix, the metric its     *)
(* template is keyed by, the fixed words of the template and the score     *)
(* formatted into it.  report_id, timestamp, model_metadata and the HTML   *)
(* rendering are not modelled.                                             *)
(***************************************************************************)
\* the metric names with a template at level critical (line 103-132)
CriticalTemplates ==
    [disparate_impact |-> "Disparate impact score fails 80% rule",
     equal_opportunity |-> "Equal opportunity score shows significant TPR differences",
     demographic_parity |-> "Demographic parity score shows unequal positive outcome rates",
     consistency |-> "Consistency score shows high variance for similar profiles",
     stability |-> "Stability score shows sensitivity to input noise",
     rule_violations |-> "Rule violation severity indicates ethical policy breaches"]

\* the metric names with a template at level warning (line 135-154)
WarningTemplates ==
    [disparate_impact |-> "Disparate impact score approaches critical threshold",
     equal_opportunity |-> "Equal opportunity score shows moderate TPR differences",
     demographic_parity |-> "Demographic parity score shows outcome rate gaps",
     consistency |-> "Consistency score shows some variance",
     stability |-> "Stability score shows some sensitivity to noise"]

\* line 98-154: the recommendations one metric of the battery adds
MetricRecommendations(metric) ==
    LET metric_name == Get(metric, "metric", None)
        level == Get(metric, "level", None)
        score == Get(metric, "score", Rat(0, 1))
    IN IF level = "critical" /\ metric_name \in DOMAIN CriticalTemplates
       THEN <<[severity |-> "CRITICAL", about |-> metric_name,
               text |-> CriticalTemplates[metric_name], score |-> score]>>
       ELSE IF level = "warning" /\ metric_name \in DOMAIN WarningTemplates
       THEN <<[severity |-> "WARNING", about |-> metric_name,
               text |-> WarningTemplates[metric_name], score |-> score]>>
       ELSE <<>>

RECURSIVE AllMetricRecommendations(_)
\* line 97: the loop over the battery, in its order
AllMetricRecommendations(battery) ==
    IF battery = <<>> THEN <<>>
    ELSE MetricRecommendations(Head(battery)) \o AllMetricRecommendations(Tail(battery))

\* line 157-167
GeneralRecommendations(val_summary) ==
    LET avg_risk == Get(val_summary, "avg_risk_score", Rat(50, 1))
    IN IF RLt(Rat(70, 1), avg_risk)
       THEN <<[severity |-> "GENERAL", about |-> "avg_risk_score",
               text |-> "Model produces high average risk score", score |-> avg_risk]>>
       ELSE IF RLt(avg_risk, Rat(30, 1))
       THEN <<[severity |-> "GENERAL", about |-> "avg_risk_score",
               text |-> "Model produces low average risk score", score |-> avg_risk]>>
       ELSE <<>>

PassesAllChecks ==
    [severity |-> "GENERAL", about |-> "all",
     text |-> "Model passes all fairness checks. Re-run validation quarterly"]

\* line 170-176 without the message for an empty list
ReturnRecommendationsAsIs(recommendations) == recommendations

\* line 170-176
WithPassMessage(recommendations) ==
    IF recommendations = <<>> THEN <<PassesAllChecks>> ELSE recommendations

\* _generate_recommendations (line 91-176)
GenerateRecommendations(m, val_summary) ==
    WithPassMessage(AllMetricRecommendations(Get(m, "metrics", <<>>))
                        \o GeneralRecommendations(val_summary))

\* line 35
CriticalMetrics(m) ==
    SelectSeq(Get(m, "metrics", <<>>), LAMBDA x : Get(x, "level", None) = "critical")

\* line 37-48 with the score looked at before the critical metrics
VerdictScoreFirst(overall_score, critical_count) ==
    IF RLe(Rat(80, 1), overall_score)
    THEN [status |-> "pass",
          status_reason |-> [text |-> "All fairness metrics within acceptable thresholds"]]
    ELSE IF critical_count > 0
    THEN [status |-> "fail",
          status_reason |-> [count |-> critical_count,
                             text |-> "critical fairness issue(s) detected"]]
    ELSE IF RLe(Rat(60, 1), overall_score)
    THEN [status |-> "conditional_pass",
          status_reason |-> [text |-> "Some fairness warnings detected, review recommended"]]
    ELSE [status |-> "fail",
          status_reason |-> [text |-> "Overall fairness score below acceptable threshold"]]

\* line 37-48
Verdict(overall_score, critical_count) ==
    IF critical_count > 0
    THEN [status |-> "fail",
          status_reason |-> [count |-> critical_count,
                             text |-> "critical fairness issue(s) detected"]]
    ELSE IF RLe(Rat(80, 1), overall_score)
    THEN [status |-> "pass",
          status_reason |-> [text |-> "All fairness metrics within acceptable thresholds"]]
    ELSE IF RLe(Rat(60, 1), overall_score)
    THEN [status |-> "conditional_pass",
          status_reason |-> [text |-> "Some fairness warnings detected, review recommended"]]
    ELSE [status |-> "fail",
          status_reason |-> [text |-> "Overall fairness score below acceptable threshold"]]

\* generate_validation_report (line 31-88)
GenerateValidationReport(m, stats, val_summary) ==
    LET overall_score == Get(m, "overall_fairness_score", Rat(0, 1))
        verdict == Verdict(overall_score, Len(CriticalMetrics(m)))
        recommendations == GenerateRecommendations(m, val_summary)
    IN [report_json |->
            ReportDatasetFields(stats, val_summary)
            @@ [fairness_metrics |-> [overall_score |-> overall_score,
                                      metrics |-> Get(m, "metrics", <<>>)],
                status |-> verdict.status,
                status_reason |-> verdict.status_reason,
                recommendations |-> recommendations],
        status |-> verdict.status,
        overall_score |-> overall_score,
        recommendations |-> recommendations]

\* the metric names calculate_all_metrics gives and validate_model passes on
\* (metrics.py line 432-443, validation.py line 199-201)
RouterMetricNames ==
    {"disparate_impact_gender", "equal_opportunity_gender", "demographic_parity_gender",
     "disparate_impact_ethnicity", "equal_opportunity_ethnicity",
     "demographic_parity_ethnicity", "consistency", "rule_violations", "stability"}

\* the metric names of the batteries of SpecReport: names of the pipeline and
\* a name the templates are keyed by
MetricNames ==
    {"disparate_impact", "disparate_impact_gender", "equal_opportunity_ethnicity",
     "consistency", "rule_violations", "stability"}

\* the score of a metric of the battery, by its level
LevelScore(level) ==
    CASE level = "critical" -> Rat(44, 100)
      [] level = "warning" -> Rat(70, 100)
      [] OTHER -> Rat(1, 1)

MetricEntries ==
    {[metric |-> name, level |-> level, score |-> LevelScore(level)] :
        name \in MetricNames, level \in {"acceptable", "warning", "critical"}}

\* overall scores on both sides of the thresholds 60 and 80, and one in [0, 1]
OverallScores == {Rat(1, 2), Rat(599, 10), Rat(60, 1), Rat(799, 10), Rat(80, 1)}

Batteries ==
    {[overall_fairness_score |-> overall, metrics |-> battery] :
        overall \in OverallScores,
        battery \in UNION {[1..n -> MetricEntries] : n \in 0..MaxMetrics}}

\* validation summaries: no average risk score, and averages on both sides
\* of the thresholds 30 and 70
Summaries ==
    {[total |-> 2]}
    \cup {[total |-> 2, avg_risk_score |-> avg] :
            avg \in {Rat(20, 1), Rat(30, 1), Rat(70, 1), Rat(80, 1)}}

DatasetStats == {[total_cases |-> 2, edge_cases_count |-> 0, regular_cases_count |-> 2]}

(***************************************************************************)
(* SpecReport: one call of generate_validation_report.                     *)
(***************************************************************************)
InitReport ==
    /\ report_pc = "call"
    /\ metrics \in Batteries
    /\ synthetic_stats \in DatasetStats
    /\ summary \in Summaries
    /\ report = [status |-> "none"]
    /\ CaseIdle /\ GenIdle /\ NoiseIdle /\ ValIdle /\ AnalysisIdle

CallGenerateValidationReport ==
    /\ report_pc = "call"
    /\ report' = GenerateValidationReport(metrics, synthetic_stats, summary)
    /\ report_pc' = "returned"
    /\ UNCHANGED <<metrics, synthetic_stats, summary, caseVars, genVars, noiseVars, valVars, analysisVars>>

NextReport == CallGenerateValidationReport

SpecReport == InitReport /\ [][NextReport]_vars

\* the metrics of the battery at a level
AtLevel(level) == {k \in 1..Len(metrics.metrics) : metrics.metrics[k].level = level}

(***************************************************************************)
(* C7: the verdict of generate_validation_report: a battery with a metric  *)
(* at level critical gets status fail, with the number of critical metrics *)
(* in the reason, whatever the overall score; otherwise the status is pass *)
(* for an overall score >= 80, conditional_pass for a score in [60, 80)    *)
(* and fail for a score < 60.                                              *)
(***************************************************************************)
C7_VerdictRule ==
    report_pc = "returned" =>
        LET critical == Cardinality(AtLevel("critical"))
            score == metrics.overall_fairness_score
        IN /\ critical > 0 =>
                /\ report.status = "fail"
                /\ report.report_json.status_reason.count = critical
           /\ critical = 0 /\ score.n >= 80 * score.d => report.status = "pass"
           /\ critical = 0 /\ score.n < 80 * score.d /\ score.n >= 60 * score.d =>
                report.status = "conditional_pass"
           /\ critical = 0 /\ score.n < 60 * score.d => report.status = "fail"
           /\ report.report_json.status = report.status

\* two critical metrics and an overall score of 80: fail, with 2 in the reason
C7_Witness ==
    /\ report_pc = "returned"
    /\ Cardinality(AtLevel("critical")) = 2
    /\ metrics.overall_fairness_score = Rat(80, 1)
    /\ report.status = "fail"
    /\ report.report_json.status_reason.count = 2

\* the metric a template is keyed by, for a metric name of the pipeline
TemplateKey(name) ==
    CASE name \in {"disparate_impact_gender", "disparate_impact_ethnicity"} ->
            "disparate_impact"
      [] name \in {"equal_opportunity_gender", "equal_opportunity_ethnicity"} ->
            "equal_opportunity"
      [] name \in {"demographic_parity_gender", "demographic_parity_ethnicity"} ->
            "demographic_parity"
      [] OTHER -> name

\* the recommendations hold one with the severity prefix for the metric
Recommends(severity, name) ==
    \E k \in 1..Len(report.recommendations) :
        /\ report.recommendations[k].severity = severity
        /\ report.recommendations[k].about \in {name, TemplateKey(name)}

(***************************************************************************)
(* C8: for a battery whose metrics are named as the validation router      *)
(* names them, every metric at level critical contributes a CRITICAL       *)
(* recommendation and every metric at level warning a WARNING one; a       *)
(* critical disparate-impact metric yields verdict fail with a             *)
(* recommendation on disparate impact and the 80% rule.                    *)
(***************************************************************************)
C8_SeverityRecommendations ==
    (/\ report_pc = "returned"
     /\ \A k \in 1..Len(metrics.metrics) : metrics.metrics[k].metric \in RouterMetricNames)
    => /\ \A k \in AtLevel("critical") : Recommends("CRITICAL", metrics.metrics[k].metric)
       /\ \A k \in AtLevel("warning") : Recommends("WARNING", metrics.metrics[k].metric)
       /\ \A k \in AtLevel("critical") :
            metrics.metrics[k].metric = "disparate_impact_gender" =>
                /\ report.status = "fail"
                /\ \E j \in 1..Len(report.recommendations) :
                     report.recommendations[j].text = CriticalTemplates.disparate_impact

(***************************************************************************)
(* C9: the recommendations generate_validation_report returns are never    *)
(* empty, for every battery and every validation summary, with or without  *)
(* an average risk score.                                                  *)
(***************************************************************************)
C9_RecommendationsNeverEmpty ==
    report_pc = "returned" =>
        /\ Len(report.recommendations) >= 1
        /\ report.report_json.recommendations = report.recommendations

\* a battery of two metrics that add no recommendation and a summary without
\* an average risk score: the list holds the closing message alone
C9_Witness ==
    /\ report_pc = "returned"
    /\ Len(metrics.metrics) = 2
    /\ AtLevel("acceptable") = {1, 2}
    /\ "avg_risk_score" \notin DOMAIN summary
    /\ report.recommendations = <<PassesAllChecks>>

(***************************************************************************)
(* SpecConfidence: one call of _calculate_confidence_score                 *)
(* (report.py line 179-203).                                               *)
(***************************************************************************)
\* the values of total_cases: every small total, and totals below, at and
\* above the corners 100 and 500 of the coverage component
ConfTotals == (0..MaxTotal) \cup {50, 96, 99, 100, 101, 104, 200, 300, 496, 499, 500, 501, 504, 1000}

\* the values of successful_evals for a total: no success, a quarter, a half,
\* all but one, all, and one more than the total (the function does not
\* compare its arguments); every value for a small total
ConfSuccesses(total) ==
    {0, total \div 4, total \div 2, Max(0, total - 1), total, total + 1}
    \cup (IF total <= MaxTotal THEN 0..total ELSE {})

InitConfidence ==
    /\ conf_pc = "call"
    /\ conf_total \in ConfTotals
    /\ conf_successful \in ConfSuccesses(conf_total)
    /\ conf_score = [n |-> 0, d |-> 1]
    /\ CaseIdle /\ GenIdle /\ NoiseIdle /\ ValIdle /\ ReportIdle /\ MetricIdle /\ ServiceIdle

CallCalculateConfidenceScore ==
    /\ conf_pc = "call"
    /\ conf_score' = CalculateConfidenceScore(conf_total, conf_successful)
    /\ conf_pc' = "returned"
    /\ UNCHANGED <<conf_total, conf_successful, caseVars, genVars, noiseVars, valVars,
                   reportVars, metricVars, serviceVars>>

NextConfidence == CallCalculateConfidenceScore

SpecConfidence == InitConfidence /\ [][NextConfidence]_vars

(***************************************************************************)
(* C11: _calculate_confidence_score returns a value in [0, 100]; for a     *)
(* fixed total it is non-decreasing in the number of successful            *)
(* evaluations, and for a fixed success rate it is non-decreasing in       *)
(* total_cases: the coverage rises linearly to 30 at 100 cases and to 50   *)
(* at 500 cases and is flat afterwards, without a drop at 100 or at 500.   *)
(***************************************************************************)
C11_ConfidenceMonotone ==
    conf_pc = "returned" =>
        /\ RLe(Rat(0, 1), conf_score) /\ RLe(conf_score, Rat(100, 1))
        /\ \A fewer \in ConfSuccesses(conf_total) :
            fewer <= conf_successful =>
                RLe(CalculateConfidenceScore(conf_total, fewer), conf_score)
        /\ \A larger \in ConfTotals : \A successes \in ConfSuccesses(larger) :
            (/\ conf_total > 0
             /\ larger >= conf_total
             /\ successes * conf_total = conf_successful * larger)
            => RLe(conf_score, CalculateConfidenceScore(larger, successes))
        /\ conf_successful = 0 =>
            /\ conf_total <= 100 => conf_score = Rat(30 * conf_total, 100)
            /\ conf_total \in 100..500 =>
                conf_score = Rat(30 * 400 + 20 * (conf_total - 100), 400)
            /\ conf_total >= 500 => conf_score = Rat(50, 1)

\* 100 cases, half of them evaluated: 25 points of success and 30 of coverage
C11_Witness ==
    /\ conf_pc = "returned"
    /\ conf_total = 100
    /\ conf_successful = 50
    /\ conf_score = Rat(55, 1)

(***************************************************************************)
(* validation/metrics.py.                                                  *)
(*                                                                         *)
(* A result is a record of case_id, input and output, as run_validation    *)
(* builds it.  Rates, ratios, gaps and variances are the exact rationals   *)
(* of the floats the code computes.  A metric function returns its         *)
(* dictionary; a call that raises is the record [raised |-> exception].    *)
(***************************************************************************)
RSub(x, y) == Rat(x.n * y.d - y.n * x.d, x.d * y.d)

\* x / y for y > 0
RDiv(x, y) == Rat(x.n * y.d, x.d * y.n)

\* min() and max() of a non-empty set of rationals
RSetMin(xs) == CHOOSE x \in xs : \A y \in xs : RLe(x, y)

RSetMax(xs) == CHOOSE x \in xs : \A y \in xs : RLe(y, x)

(***************************************************************************)
(* The floats of a threshold test.  A positive float (IEEE 754 binary64,   *)
(* the float of Python) is [m |-> <<hi, lo>>, e |-> exponent]: its 53-bit  *)
(* significand is hi * 2^26 + lo, with 2^52 <= significand < 2^53, and its *)
(* value is significand / 2^52 * 2^e.  Division rounds to the nearest      *)
(* float, a tie to the even significand.                                   *)
(***************************************************************************)
Limb == 2^26

BigTwice(x) == <<2 * x[1] + (2 * x[2]) \div Limb, (2 * x[2]) % Limb>>

BigInc(x) == IF x[2] + 1 = Limb THEN <<x[1] + 1, 0>> ELSE <<x[1], x[2] + 1>>

BigGe(x, y) == x[1] > y[1] \/ (x[1] = y[1] /\ x[2] >= y[2])

\* x - y for x >= y
BigSub(x, y) ==
    IF x[2] >= y[2] THEN <<x[1] - y[1], x[2] - y[2]>>
    ELSE <<x[1] - y[1] - 1, x[2] + Limb - y[2]>>

\* the float of a significand of 53 bits and the rounding of what follows it
Rounded(m, e, round_up) ==
    IF ~round_up THEN [m |-> m, e |-> e]
    ELSE IF BigInc(m) = <<2 * Limb, 0>> THEN [m |-> <<Limb, 0>>, e |-> e + 1]
    ELSE [m |-> BigInc(m), e |-> e]

RECURSIVE RatioBits(_, _, _, _)
\* long division by a small divisor: the next bits of the significand
RatioBits(r, n, m, bits_left) ==
    IF bits_left = 0 THEN [m |-> m, r |-> r]
    ELSE LET bit == IF 2 * r >= n THEN 1 ELSE 0
             rest == 2 * r - bit * n
             twice == BigTwice(m)
             next == <<twice[1], twice[2] + bit>>
         IN \* the test makes rest and next values before the next step
            IF rest >= 0 /\ next[1] >= 0
            THEN RatioBits(rest, n, next, bits_left - 1)
            ELSE [m |-> m, r |-> r]

RECURSIVE FloatOfRatio(_, _, _)
\* a / n in floats, times 2^e, for integers 0 < a and 0 < n: the division of
\* two int of Python, and a literal such as 0.8
FloatOfRatio(a, n, e) ==
    IF a < n THEN FloatOfRatio(2 * a, n, e - 1)
    ELSE IF a >= 2 * n THEN FloatOfRatio(a, 2 * n, e + 1)
    ELSE LET bits == RatioBits(a - n, n, <<0, 1>>, 52)
         IN Rounded(bits.m, e,
                    2 * bits.r > n \/ (2 * bits.r = n /\ bits.m[2] % 2 = 1))

RECURSIVE QuotientBits(_, _, _, _)
\* long division of two significands: the next bits of the quotient
QuotientBits(r, d, q, bits_left) ==
    IF bits_left = 0 THEN [q |-> q, r |-> r]
    ELSE LET twice == BigTwice(r)
             bit == IF BigGe(twice, d) THEN 1 ELSE 0
             rest == IF bit = 1 THEN BigSub(twice, d) ELSE twice
             next == <<BigTwice(q)[1], BigTwice(q)[2] + bit>>
         IN \* the test makes rest and next values before the next step
            IF rest[1] >= 0 /\ next[1] >= 0
            THEN QuotientBits(rest, d, next, bits_left - 1)
            ELSE [q |-> q, r |-> r]

\* x / y in floats
FloatDiv(x, y) ==
    LET whole == BigGe(x.m, y.m)
        first == IF whole THEN BigSub(x.m, y.m) ELSE BigSub(BigTwice(x.m), y.m)
        bits == QuotientBits(first, y.m, <<0, 1>>, 52)
        twice == BigTwice(bits.r)
    IN Rounded(bits.q, IF whole THEN x.e - y.e ELSE x.e - y.e - 1,
               (BigGe(twice, y.m) /\ twice # y.m)
               \/ (twice = y.m /\ bits.q[2] % 2 = 1))

\* x >= y in floats
FloatGe(x, y) == x.e > y.e \/ (x.e = y.e /\ BigGe(x.m, y.m))

\* the float of a rate n / d > 0
FloatOfRate(rate) == FloatOfRatio(rate.n, rate.d, 0)

RECURSIVE BigShifted(_, _)
\* x * 2^bits
BigShifted(x, bits) == IF bits = 0 THEN x ELSE BigShifted(BigTwice(x), bits - 1)

\* x \div 2
BigHalf(x) == <<x[1] \div 2, (x[1] % 2) * (Limb \div 2) + x[2] \div 2>>

RECURSIVE Normalized(_, _, _, _)
\* the float nearest to a positive number m * 2^(e - 52), of which the first
\* bit shifted out is guard and a later one was set iff sticky
Normalized(m, e, guard, sticky) ==
    IF m[1] >= 2 * Limb
    THEN Normalized(BigHalf(m), e + 1, m[2] % 2, sticky \/ guard = 1)
    ELSE IF m[1] < Limb
    THEN Normalized(BigTwice(m), e - 1, 0, FALSE)
    ELSE Rounded(m, e, guard = 1 /\ (sticky \/ m[2] % 2 = 1))

\* x - y in floats, for x > y > 0
FloatSub(x, y) ==
    Normalized(BigSub(BigShifted(x.m, x.e - y.e), y.m), y.e, 0, FALSE)

\* line 32: result["input"].get("applicant", {}).get(sensitive_attr)
AttrValue(result, attr) == Get(Get(result.input, "applicant", <<>>), attr, None)

\* line 33: the truth value of an attribute value
Truthy(value) == value \notin {None, ""}

\* line 30-36 without the test of line 33
GroupNamesWithMissing(rs, attr) == {AttrValue(rs[k], attr) : k \in 1..Len(rs)}

\* line 30-36: the keys of groups
GroupNames(rs, attr) ==
    {AttrValue(rs[k], attr) : k \in {j \in 1..Len(rs) : Truthy(AttrValue(rs[j], attr))}}

\* line 30-36: the results of a group, by index
GroupMembers(rs, attr, group_name) == {k \in 1..Len(rs) : AttrValue(rs[k], attr) = group_name}

\* line 50-51: the share of a group with risk level low
ApprovalRate(rs, members) ==
    Rat(Cardinality({k \in members : rs[k].output.risk_level = "low"}), Cardinality(members))

\* line 49-51: the approval rates of the groups
ApprovalRates(rs, attr) ==
    {ApprovalRate(rs, GroupMembers(rs, attr, g)) : g \in GroupNames(rs, attr)}

\* the approval rate of the group of the first result with a value
FirstGroupApprovalRate(rs, attr) ==
    LET first == CHOOSE k \in 1..Len(rs) :
                    /\ Truthy(AttrValue(rs[k], attr))
                    /\ \A j \in 1..(k - 1) : ~Truthy(AttrValue(rs[j], attr))
    IN ApprovalRate(rs, GroupMembers(rs, attr, AttrValue(rs[first], attr)))

\* line 63 and 206
MinApprovalRate(rs, attr) == RSetMin(ApprovalRates(rs, attr))

\* line 64 and 206
MaxApprovalRate(rs, attr) == RSetMax(ApprovalRates(rs, attr))

\* line 67 with 0.0 for a population without an approval
DisparateImpactRatioZeroWithoutApproval(min_rate, max_rate) ==
    IF RLt(Rat(0, 1), max_rate) THEN RDiv(min_rate, max_rate) ELSE Rat(0, 1)

\* line 67: the ratio, as the rational the float of the code rounds
DisparateImpactRatio(min_rate, max_rate) ==
    IF RLt(Rat(0, 1), max_rate) THEN RDiv(min_rate, max_rate) ELSE Rat(1, 1)

\* line 67, 70 and 73: ratio >= threshold, for a threshold in (0, 1).  The
\* float of the ratio is within 2^-51 of the ratio, so that the test is the
\* one on the rationals unless the ratio is the threshold itself; there it is
\* the test on the float of the ratio and the float of the literal
RatioAtLeast(min_rate, max_rate, threshold) ==
    IF DisparateImpactRatio(min_rate, max_rate) # threshold
    THEN RLe(threshold, DisparateImpactRatio(min_rate, max_rate))
    ELSE FloatGe(FloatDiv(FloatOfRate(min_rate), FloatOfRate(max_rate)),
                 FloatOfRate(threshold))

\* line 70-78
DisparateImpactLevel(min_rate, max_rate) ==
    IF RatioAtLeast(min_rate, max_rate, Rat(8, 10)) THEN "acceptable"
    ELSE IF RatioAtLeast(min_rate, max_rate, Rat(6, 10)) THEN "warning"
    ELSE "critical"

\* calculate_disparate_impact (line 16-91); line 54-61 is not reached with
\* two groups or more
CalculateDisparateImpact(rs, attr) ==
    LET groups == GroupNames(rs, attr)
        approval_rates == [g \in groups |-> ApprovalRate(rs, GroupMembers(rs, attr, g))]
        min_rate == MinApprovalRate(rs, attr)
        max_rate == MaxApprovalRate(rs, attr)
    IN IF Cardinality(groups) < 2
       THEN [metric_name |-> "disparate_impact", score |-> Rat(1, 1), level |-> "acceptable",
             explanation |-> "Insufficient groups", details |-> <<>>]
       ELSE [metric_name |-> "disparate_impact",
             score |-> DisparateImpactRatio(min_rate, max_rate),
             level |-> DisparateImpactLevel(min_rate, max_rate),
             explanation |-> "Disparate impact ratio",
             details |-> [sensitive_attribute |-> attr,
                          approval_rates_by_group |-> approval_rates,
                          min_rate |-> min_rate, max_rate |-> max_rate]]

\* line 108-110
Qualified(result) ==
    /\ Get(Get(result.input, "financial", <<>>), "credit_score", 0) >= 650
    /\ Get(Get(result.input, "financial", <<>>), "annual_income", 0) >= 40000

\* line 129-132: the true positive rate of a group
TruePositiveRate(rs, members) ==
    LET qualified == {k \in members : Qualified(rs[k])}
    IN IF Cardinality(qualified) > 0
       THEN Rat(Cardinality({k \in qualified : rs[k].output.risk_level = "low"}),
                Cardinality(qualified))
       ELSE Rat(0, 1)

\* line 145, 150, 153 and 203, 208, 211: max - min <= threshold, in the floats
\* of the code where the exact difference is the threshold itself
DifferenceAtMost(max_value, min_value, threshold) ==
    IF RSub(max_value, min_value) # threshold \/ min_value.n = 0
    THEN RLe(RSub(max_value, min_value), threshold)
    ELSE FloatGe(FloatOfRate(threshold),
                 FloatSub(FloatOfRate(max_value), FloatOfRate(min_value)))

\* line 150-158 and 208-216
DifferenceLevel(max_value, min_value) ==
    IF DifferenceAtMost(max_value, min_value, Rat(1, 10)) THEN "acceptable"
    ELSE IF DifferenceAtMost(max_value, min_value, Rat(2, 10)) THEN "warning"
    ELSE "critical"

\* calculate_equal_opportunity (line 94-170); line 134-141 is not reached
\* with two groups or more
CalculateEqualOpportunity(rs, attr) ==
    LET groups == GroupNames(rs, attr)
        tpr_by_group == [g \in groups |-> TruePositiveRate(rs, GroupMembers(rs, attr, g))]
        tpr_values == {tpr_by_group[g] : g \in groups}
        max_diff == RSub(RSetMax(tpr_values), RSetMin(tpr_values))
    IN IF Cardinality(groups) < 2
       THEN [metric_name |-> "equal_opportunity", score |-> Rat(1, 1), level |-> "acceptable",
             explanation |-> "Insufficient groups", details |-> <<>>]
       ELSE [metric_name |-> "equal_opportunity", score |-> RSub(Rat(1, 1), max_diff),
             level |-> DifferenceLevel(RSetMax(tpr_values), RSetMin(tpr_values)),
             explanation |-> "Equal opportunity difference",
             details |-> [sensitive_attribute |-> attr, tpr_by_group |-> tpr_by_group,
                          max_difference |-> max_diff]]

\* calculate_demographic_parity (line 173-228)
CalculateDemographicParity(rs, attr) ==
    LET groups == GroupNames(rs, attr)
        positive_rates == [g \in groups |-> ApprovalRate(rs, GroupMembers(rs, attr, g))]
        gap == RSub(MaxApprovalRate(rs, attr), MinApprovalRate(rs, attr))
    IN IF Cardinality(groups) < 2
       THEN [metric_name |-> "demographic_parity_gap", score |-> Rat(0, 1),
             level |-> "acceptable", explanation |-> "Insufficient groups", details |-> <<>>]
       ELSE [metric_name |-> "demographic_parity_gap", score |-> gap,
             level |-> DifferenceLevel(MaxApprovalRate(rs, attr), MinApprovalRate(rs, attr)),
             explanation |-> "Demographic parity gap",
             details |-> [sensitive_attribute |-> attr,
                          positive_rates_by_group |-> positive_rates, gap |-> gap]]

\* get_profile_key (line 238-243)
ProfileKey(result) ==
    <<Get(Get(result.input, "financial", <<>>), "annual_income", 0) \div 20000,
      Get(Get(result.input, "financial", <<>>), "credit_score", 0) \div 50>>

RECURSIVE SumOver(_, _, _)
\* the sum of f[k] over the indices k of a finite set
SumOver(f, indices, zero) ==
    IF indices = {} THEN zero
    ELSE LET k == CHOOSE j \in indices : TRUE
         IN RAdd(f[k], SumOver(f, indices \ {k}, zero))

\* statistics.variance of the risk scores of the results at the indices (line 256)
ScoreVariance(rs, members) ==
    LET count_of == Cardinality(members)
        score_of == [k \in members |-> Rat(rs[k].output.risk_score, 1)]
        square_of == [k \in members |-> Rat(rs[k].output.risk_score * rs[k].output.risk_score, 1)]
        total == SumOver(score_of, members, Rat(0, 1)).n
        squares == SumOver(square_of, members, Rat(0, 1)).n
    IN Rat(count_of * squares - total * total, count_of * (count_of - 1))

\* calculate_consistency_score (line 231-299)
CalculateConsistencyScore(rs) ==
    LET keys == {ProfileKey(rs[k]) : k \in 1..Len(rs)}
        profile(key) == {k \in 1..Len(rs) : ProfileKey(rs[k]) = key}
        analyzed == {key \in keys : Cardinality(profile(key)) >= 3}
        variances == [key \in analyzed |-> ScoreVariance(rs, profile(key))]
        total_variance == SumOver(variances, analyzed, Rat(0, 1))
        avg_variance == Rat(total_variance.n, total_variance.d * Cardinality(analyzed))
        band == IF RLe(avg_variance, Rat(50, 1)) THEN [score |-> Rat(1, 1), level |-> "acceptable"]
                ELSE IF RLe(avg_variance, Rat(150, 1))
                THEN [score |-> Rat(7, 10), level |-> "acceptable"]
                ELSE IF RLe(avg_variance, Rat(300, 1))
                THEN [score |-> Rat(5, 10), level |-> "warning"]
                ELSE [score |-> Rat(3, 10), level |-> "critical"]
    IN IF analyzed = {}
       THEN [metric_name |-> "consistency_score", score |-> Rat(1, 1), level |-> "acceptable",
             explanation |-> "Insufficient data for consistency analysis", details |-> <<>>]
       ELSE [metric_name |-> "consistency_score", score |-> band.score, level |-> band.level,
             explanation |-> "Model consistency",
             details |-> [avg_variance |-> avg_variance, profile_count |-> Cardinality(keys),
                          analyzed_profiles |-> Cardinality(analyzed)]]

\* abs()
Abs(x) == IF x < 0 THEN 0 - x ELSE x

\* line 321 with the noisy results taken from the end
ZipReversed(original, noisy) ==
    [k \in 1..Len(original) |-> <<original[k], noisy[Len(noisy) + 1 - k]>>]

\* zip(results_original, results_noisy) (line 321), for lists of one length
Zip(original, noisy) == [k \in 1..Len(original) |-> <<original[k], noisy[k]>>]

\* calculate_stability_score (line 302-361); statistics.mean of no score
\* differences (line 329) raises
CalculateStabilityScore(original, noisy) ==
    LET pairs == 1..Len(original)
        zipped == Zip(original, noisy)
        score_diffs == [k \in pairs |->
                            Rat(Abs(zipped[k][1].output.risk_score
                                    - zipped[k][2].output.risk_score), 1)]
        level_changes == Cardinality({k \in pairs :
                            zipped[k][1].output.risk_level # zipped[k][2].output.risk_level})
        avg_diff == Rat(SumOver(score_diffs, pairs, Rat(0, 1)).n, Len(original))
        level_change_rate == Rat(level_changes, Len(original))
        band == IF RLe(avg_diff, Rat(5, 1)) /\ RLe(level_change_rate, Rat(5, 100))
                THEN [score |-> Rat(1, 1), level |-> "acceptable"]
                ELSE IF RLe(avg_diff, Rat(10, 1)) /\ RLe(level_change_rate, Rat(15, 100))
                THEN [score |-> Rat(8, 10), level |-> "acceptable"]
                ELSE IF RLe(avg_diff, Rat(20, 1)) /\ RLe(level_change_rate, Rat(30, 100))
                THEN [score |-> Rat(6, 10), level |-> "warning"]
                ELSE [score |-> Rat(4, 10), level |-> "critical"]
    IN IF Len(original) # Len(noisy)
       THEN [metric_name |-> "stability_score", score |-> Rat(1, 1), level |-> "acceptable",
             explanation |-> "Stability test not performed (no noisy data)", details |-> <<>>]
       ELSE IF Len(original) = 0
       THEN [raised |-> "StatisticsError"]
       ELSE [metric_name |-> "stability_score", score |-> band.score, level |-> band.level,
             explanation |-> "Model stability",
             details |-> [avg_score_difference |-> avg_diff,
                          level_change_rate |-> level_change_rate,
                          level_changes |-> level_changes,
                          total_comparisons |-> Len(original)]]

\* line 374: result["output"].get("triggered_rules", [])
TriggeredRules(result) == Get(result.output, "triggered_rules", <<>>)

\* the triggered rules of the results, one <<k, i>> for the i-th rule of
\* the k-th result
RuleOccurrences(rs) ==
    UNION {{<<k, i>> : i \in 1..Len(TriggeredRules(rs[k]))} : k \in 1..Len(rs)}

\* line 374-376: the entries of violation_counts
ViolationCounts(rs) ==
    [rule \in {TriggeredRules(rs[o[1]])[o[2]] : o \in RuleOccurrences(rs)} |->
        Cardinality({o \in RuleOccurrences(rs) : TriggeredRules(rs[o[1]])[o[2]] = rule})]

\* line 381: sum(violation_counts.values()), every occurrence counted once
TotalViolations(rs) == Cardinality(RuleOccurrences(rs))

\* line 386-401: the bands of the two rates; a rate k / n with small n is
\* on the same side of a threshold as its float
ViolationBand(violation_rate, high_risk_rate) ==
    IF RLe(violation_rate, Rat(1, 10)) /\ RLe(high_risk_rate, Rat(5, 100))
    THEN [score |-> Rat(1, 1), level |-> "acceptable"]
    ELSE IF RLe(violation_rate, Rat(25, 100)) /\ RLe(high_risk_rate, Rat(15, 100))
    THEN [score |-> Rat(7, 10), level |-> "acceptable"]
    ELSE IF RLe(violation_rate, Rat(40, 100)) /\ RLe(high_risk_rate, Rat(30, 100))
    THEN [score |-> Rat(5, 10), level |-> "warning"]
    ELSE [score |-> Rat(3, 10), level |-> "critical"]

\* calculate_rule_violation_severity (line 364-415)
CalculateRuleViolationSeverity(rs) ==
    LET total == Len(rs)
        high_risk_count == Cardinality({k \in 1..Len(rs) : rs[k].output.risk_level = "high"})
        violation_rate == IF total > 0 THEN Rat(TotalViolations(rs), total) ELSE Rat(0, 1)
        high_risk_rate == IF total > 0 THEN Rat(high_risk_count, total) ELSE Rat(0, 1)
        band == ViolationBand(violation_rate, high_risk_rate)
    IN [metric_name |-> "rule_violation_severity", score |-> band.score, level |-> band.level,
        explanation |-> "violation rate, high-risk rate",
        details |-> [total_evaluations |-> total,
                     total_violations |-> TotalViolations(rs),
                     violation_rate |-> violation_rate,
                     high_risk_count |-> high_risk_count,
                     high_risk_rate |-> high_risk_rate,
                     violations_by_rule |-> ViolationCounts(rs)]]

(***************************************************************************)
(* SpecMetrics: one call of one metric function over a list of results.    *)
(***************************************************************************)
MediumSignal == [risk_score |-> 50, risk_level |-> "medium", triggered_rules |-> <<>>]

\* an output with two triggered rules
SevereSignal ==
    [risk_score |-> 80, risk_level |-> "high",
     triggered_rules |-> <<"low_credit_score", "high_debt_ratio">>]

\* a case whose applicant has neither gender nor ethnicity
AnonymousCase(case_id, income, credit_score) ==
    [case_id |-> case_id,
     applicant |-> [age |-> 30],
     financial |-> [annual_income |-> income, credit_score |-> credit_score,
                    existing_debt |-> income \div 4, savings |-> 1000],
     request |-> [loan_amount |-> 20000]]

\* the results the lists of SpecMetrics are drawn from: three genders and
\* three ethnicities, an empty and a missing attribute value, qualified and
\* unqualified applicants, the three risk levels, and no, one and two
\* triggered rules
MetricSamples ==
    {SuccessResult(SampleCase(CaseIdStr("synthetic", 0), 30, "male", "caucasian", 50000, 700),
                   LowSignal),
     SuccessResult(SampleCase(CaseIdStr("synthetic", 1), 30, "male", "hispanic", 50000, 700),
                   HighSignal),
     SuccessResult(SampleCase(CaseIdStr("synthetic", 2), 30, "female", "caucasian", 50000, 700),
                   LowSignal),
     SuccessResult(SampleCase(CaseIdStr("synthetic", 3), 30, "female", "hispanic", 30000, 600),
                   HighSignal),
     SuccessResult(SampleCase(CaseIdStr("synthetic", 4), 30, "non-binary", "asian", 50000, 700),
                   MediumSignal),
     SuccessResult(AnonymousCase(CaseIdStr("synthetic", 5), 50000, 700), LowSignal),
     SuccessResult(SampleCase(CaseIdStr("synthetic", 6), 30, "", "", 50000, 700), SevereSignal)}

\* every list of up to MaxResults sample results
ShortResultLists == UNION {[1..n -> MetricSamples] : n \in 0..MaxResults}

\* a population of two genders given by its counts: males of whom low_males
\* have risk level low, then females of whom low_females have
Population(males, low_males, females, low_females) ==
    [k \in 1..(males + females) |->
        SuccessResult(
            SampleCase(CaseIdStr("synthetic", k), 30,
                       IF k <= males THEN "male" ELSE "female",
                       IF k <= males THEN "caucasian" ELSE "hispanic", 50000, 700),
            IF k <= low_males \/ (k > males /\ k <= males + low_females)
            THEN LowSignal ELSE HighSignal)]

\* every population of two groups of up to MaxGroup members
Populations ==
    UNION {{Population(males, low_males, females, low_females) :
                low_males \in 0..males, low_females \in 0..females} :
           males \in 1..MaxGroup, females \in 1..MaxGroup}

SensitiveAttrs == {"gender", "ethnicity"}

\* the output of a result with the risk score moved by the noise
ShiftedOutput(output) == [output EXCEPT !.risk_score = @ + 4]

\* the results_noisy the stability metric is called with: the results
\* themselves, no result, one result fewer, one more, and the results of a
\* second pass whose outputs moved a little or all came out high
NoisyVariants(rs) ==
    {rs, <<>>, Append(rs, SuccessResult(AnonymousCase(CaseIdStr("synthetic", 5), 50000, 700),
                                        LowSignal)),
     [k \in 1..Len(rs) |-> [rs[k] EXCEPT !.output = ShiftedOutput(@)]],
     [k \in 1..Len(rs) |-> [rs[k] EXCEPT !.output = HighSignal]]}
    \cup (IF rs = <<>> THEN {} ELSE {SubSeq(rs, 1, Len(rs) - 1)})

InitMetrics ==
    /\ metric_pc = "call"
    /\ metric_fn = "none"
    /\ results_original \in ShortResultLists \cup Populations
    /\ results_noisy = <<>>
    /\ sensitive_attr = "none"
    /\ metric_result = [metric_name |-> "none"]
    /\ CaseIdle /\ GenIdle /\ NoiseIdle /\ ValIdle /\ ReportIdle /\ ConfIdle /\ ServiceIdle

\* the end of a call: the function returned its dictionary or raised
Finish(fn, outcome) ==
    /\ metric_fn' = fn
    /\ metric_result' = outcome
    /\ metric_pc' = IF "raised" \in DOMAIN outcome THEN "raised" ELSE "returned"
    /\ UNCHANGED <<results_original, caseVars, genVars, noiseVars, valVars, reportVars,
                   confVars, serviceVars>>

CallCalculateDisparateImpact ==
    /\ metric_pc = "call"
    /\ \E attr \in SensitiveAttrs :
        /\ sensitive_attr' = attr
        /\ Finish("calculate_disparate_impact", CalculateDisparateImpact(results_original, attr))
    /\ UNCHANGED results_noisy

CallCalculateEqualOpportunity ==
    /\ metric_pc = "call"
    /\ \E attr \in SensitiveAttrs :
        /\ sensitive_attr' = attr
        /\ Finish("calculate_equal_opportunity",
                  CalculateEqualOpportunity(results_original, attr))
    /\ UNCHANGED results_noisy

CallCalculateDemographicParity ==
    /\ metric_pc = "call"
    /\ \E attr \in SensitiveAttrs :
        /\ sensitive_attr' = attr
        /\ Finish("calculate_demographic_parity",
                  CalculateDemographicParity(results_original, attr))
    /\ UNCHANGED results_noisy

CallCalculateConsistencyScore ==
    /\ metric_pc = "call"
    /\ Finish("calculate_consistency_score", CalculateConsistencyScore(results_original))
    /\ UNCHANGED <<results_noisy, sensitive_attr>>

CallCalculateRuleViolationSeverity ==
    /\ metric_pc = "call"
    /\ Finish("calculate_rule_violation_severity",
              CalculateRuleViolationSeverity(results_original))
    /\ UNCHANGED <<results_noisy, sensitive_attr>>

CallCalculateStabilityScore ==
    /\ metric_pc = "call"
    /\ \E noisy \in NoisyVariants(results_original) :
        /\ results_noisy' = noisy
        /\ Finish("calculate_stability_score", CalculateStabilityScore(results_original, noisy))
    /\ UNCHANGED sensitive_attr

NextMetrics ==
    \/ CallCalculateDisparateImpact
    \/ CallCalculateEqualOpportunity
    \/ CallCalculateDemographicParity
    \/ CallCalculateConsistencyScore
    \/ CallCalculateRuleViolationSeverity
    \/ CallCalculateStabilityScore

SpecMetrics == InitMetrics /\ [][NextMetrics]_vars

\* the call of the function has returned
MetricReturned(fn) == metric_pc = "returned" /\ metric_fn = fn

(***************************************************************************)
(* C12: given original and noisy result sequences of different lengths,    *)
(* the stability metric fails with an error and returns no metric result:  *)
(* no acceptable stability metric comes from mismatched sequences.         *)
(***************************************************************************)
C12_StabilityMismatchFails ==
    (/\ metric_fn = "calculate_stability_score"
     /\ Len(results_original) # Len(results_noisy))
    => metric_pc = "raised"

(***************************************************************************)
(* C13: an empty population is rejected explicitly: run_validation over    *)
(* zero cases ends in a failure and returns no validation result for the   *)
(* caller to build metrics, a verdict and recommendations on.              *)
(***************************************************************************)
C13_EmptyPopulationRejected ==
    synthetic_cases = <<>> => val_pc \notin {"returned", "summarized", "reported"}

(***************************************************************************)
(* The population of a state of SpecMetrics, counted from the results.     *)
(***************************************************************************)
\* the result has a value of the sensitive attribute
HasValue(k) ==
    /\ "applicant" \in DOMAIN results_original[k].input
    /\ sensitive_attr \in DOMAIN results_original[k].input.applicant
    /\ results_original[k].input.applicant[sensitive_attr] \notin {"", None}

\* the groups with a member
PresentGroups ==
    {results_original[k].input.applicant[sensitive_attr] :
        k \in {j \in 1..Len(results_original) : HasValue(j)}}

\* the members of a group
Size(g) ==
    Cardinality({k \in 1..Len(results_original) :
                    HasValue(k) /\ results_original[k].input.applicant[sensitive_attr] = g})

\* the members of a group with risk level low
Lows(g) ==
    Cardinality({k \in 1..Len(results_original) :
                    /\ HasValue(k)
                    /\ results_original[k].input.applicant[sensitive_attr] = g
                    /\ results_original[k].output.risk_level = "low"})

\* no income and credit bracket holds three results
NoBucketOfThree ==
    \A k \in 1..Len(results_original) :
        Cardinality({j \in 1..Len(results_original) :
            /\ results_original[j].input.financial.annual_income \div 20000
                 = results_original[k].input.financial.annual_income \div 20000
            /\ results_original[j].input.financial.credit_score \div 50
                 = results_original[k].input.financial.credit_score \div 50}) < 3

(***************************************************************************)
(* C14: the metrics degrade on insufficient data without raising: with     *)
(* fewer than two groups with a value of the attribute (an empty result    *)
(* list included) disparate impact and equal opportunity return score 1.0  *)
(* and level acceptable, demographic parity returns score 0.0 and level    *)
(* acceptable; with no profile bucket of 3 members consistency returns     *)
(* score 1.0 and level acceptable.                                         *)
(***************************************************************************)
C14_InsufficientDataIsAcceptable ==
    /\ metric_fn \in {"calculate_disparate_impact", "calculate_equal_opportunity",
                      "calculate_demographic_parity", "calculate_consistency_score"}
        => metric_pc = "returned"
    /\ \A fn \in {"calculate_disparate_impact", "calculate_equal_opportunity"} :
        (MetricReturned(fn) /\ Cardinality(PresentGroups) < 2)
        => metric_result.score = Rat(1, 1) /\ metric_result.level = "acceptable"
    /\ (MetricReturned("calculate_demographic_parity") /\ Cardinality(PresentGroups) < 2)
        => metric_result.score = Rat(0, 1) /\ metric_result.level = "acceptable"
    /\ (MetricReturned("calculate_consistency_score") /\ NoBucketOfThree)
        => metric_result.score = Rat(1, 1) /\ metric_result.level = "acceptable"

\* three results, one group, a result without a value and results that differ
\* in their risk level
C14_Witness ==
    /\ MetricReturned("calculate_disparate_impact")
    /\ Len(results_original) = 3
    /\ PresentGroups = {"male"}
    /\ ~HasValue(3)
    /\ results_original[1].output.risk_level # results_original[3].output.risk_level
    /\ metric_result.score = Rat(1, 1)

(***************************************************************************)
(* C15: for a non-empty result sequence R, calculate_stability_score(R, R) *)
(* returns score 1.0, level acceptable, level_change_rate 0 and average    *)
(* score difference 0.                                                     *)
(***************************************************************************)
C15_StabilityOfIdenticalResults ==
    (/\ metric_fn = "calculate_stability_score"
     /\ results_noisy = results_original
     /\ results_original # <<>>)
    => /\ metric_pc = "returned"
       /\ metric_result.score = Rat(1, 1)
       /\ metric_result.level = "acceptable"
       /\ metric_result.details.level_change_rate = Rat(0, 1)
       /\ metric_result.details.avg_score_difference = Rat(0, 1)

\* three results of different risk levels and scores against themselves
C15_Witness ==
    /\ MetricReturned("calculate_stability_score")
    /\ results_noisy = results_original
    /\ Len(results_original) = 3
    /\ results_original[1].output.risk_level = "low"
    /\ results_original[3].output.risk_level = "high"
    /\ metric_result.details.total_comparisons = 3

\* the orderings of 1..n
Orderings(n) == {f \in [1..n -> 1..n] : \A i, j \in 1..n : f[i] = f[j] => i = j}

\* the results in the order of a permutation
Permuted(rs, f) == [k \in 1..Len(rs) |-> rs[f[k]]]

\* the results with two neighbours exchanged
SwappedAt(rs, i) ==
    [k \in 1..Len(rs) |-> IF k = i THEN rs[i + 1] ELSE IF k = i + 1 THEN rs[i] ELSE rs[k]]

\* the group labels of an attribute
AttrLabels(attr) ==
    IF attr = "gender" THEN {"male", "female", "non-binary"}
    ELSE {"caucasian", "hispanic", "asian"}

\* the bijections of the group labels
Renamings(attr) ==
    {f \in [AttrLabels(attr) -> AttrLabels(attr)] :
        \A a, b \in AttrLabels(attr) : f[a] = f[b] => a = b}

\* the results with the group labels renamed
Renamed(rs, attr, f) ==
    [k \in 1..Len(rs) |->
        IF AttrValue(rs[k], attr) \in AttrLabels(attr)
        THEN [rs[k] EXCEPT !.input.applicant[attr] = f[@]]
        ELSE rs[k]]

\* the metric of the state, computed on other results
MetricAgain(rs) ==
    IF metric_fn = "calculate_disparate_impact"
    THEN CalculateDisparateImpact(rs, sensitive_attr)
    ELSE CalculateDemographicParity(rs, sensitive_attr)

SameScoreAndLevel(a, b) == a.score = b.score /\ a.level = b.level

(***************************************************************************)
(* C16: the disparate-impact score and level and the demographic-parity    *)
(* gap and level are unchanged by a permutation of the result sequence and *)
(* by a renaming (bijection) of the group labels of the attribute: which   *)
(* group comes first does not affect the min and max rates.  A list longer *)
(* than MaxResults is permuted by the exchanges of two neighbours, which   *)
(* generate its permutations.                                              *)
(***************************************************************************)
C16_OrderAndLabelSymmetry ==
    (MetricReturned("calculate_disparate_impact")
        \/ MetricReturned("calculate_demographic_parity"))
    => /\ Len(results_original) <= MaxResults =>
            \A f \in Orderings(Len(results_original)) :
                SameScoreAndLevel(MetricAgain(Permuted(results_original, f)), metric_result)
       /\ Len(results_original) > MaxResults =>
            \A i \in 1..(Len(results_original) - 1) :
                SameScoreAndLevel(MetricAgain(SwappedAt(results_original, i)), metric_result)
       /\ \A f \in Renamings(sensitive_attr) :
            SameScoreAndLevel(MetricAgain(Renamed(results_original, sensitive_attr, f)),
                              metric_result)

\* the first result is of the group with the larger rate: males 1 of 1,
\* females 1 of 2
C16_Witness ==
    /\ MetricReturned("calculate_disparate_impact")
    /\ sensitive_attr = "gender"
    /\ Len(results_original) = 3
    /\ results_original[1].input.applicant.gender = "male"
    /\ PresentGroups = {"male", "female"}
    /\ Lows("male") = 1 /\ Size("male") = 1
    /\ Lows("female") = 1 /\ Size("female") = 2
    /\ metric_result.score = Rat(1, 2)

\* two groups are present and their rates of risk level low are equal
TwoGroupsOfEqualRates ==
    /\ Cardinality(PresentGroups) = 2
    /\ \A g, h \in PresentGroups : Lows(g) * Size(h) = Lows(h) * Size(g)

(***************************************************************************)
(* C17: with exactly two groups whose rates of risk level low are equal,   *)
(* both rates 0 included, disparate impact returns score 1.0 and level     *)
(* acceptable and demographic parity returns gap 0.0 and level acceptable. *)
(***************************************************************************)
C17_EqualRates ==
    /\ (MetricReturned("calculate_disparate_impact") /\ TwoGroupsOfEqualRates)
        => metric_result.score = Rat(1, 1) /\ metric_result.level = "acceptable"
    /\ (MetricReturned("calculate_demographic_parity") /\ TwoGroupsOfEqualRates)
        => metric_result.score = Rat(0, 1) /\ metric_result.level = "acceptable"

\* two groups of different sizes without a result of risk level low
C17_Witness ==
    /\ MetricReturned("calculate_disparate_impact")
    /\ PresentGroups = {"male", "female"}
    /\ Size("male") = 2 /\ Size("female") = 3
    /\ Lows("male") = 0 /\ Lows("female") = 0
    /\ metric_result.score = Rat(1, 1)
    /\ metric_result.level = "acceptable"

\* the smallest and the largest rate of the groups present
SmallestRate == RSetMin({Rat(Lows(g), Size(g)) : g \in PresentGroups})

LargestRate == RSetMax({Rat(Lows(g), Size(g)) : g \in PresentGroups})

(***************************************************************************)
(* C20: with two groups or more, calculate_disparate_impact leaves out the *)
(* results without a value of the attribute, takes as the rate of a group  *)
(* its members with risk level low over its members, returns the score     *)
(* min rate / max rate (1.0 when the max rate is 0) and the level          *)
(* acceptable iff score >= 0.8, warning iff 0.6 <= score < 0.8 and         *)
(* critical iff score < 0.6.                                               *)
(***************************************************************************)
C20_DisparateImpactRule ==
    (MetricReturned("calculate_disparate_impact") /\ Cardinality(PresentGroups) >= 2)
    => /\ DOMAIN metric_result.details.approval_rates_by_group = PresentGroups
       /\ \A g \in PresentGroups :
            metric_result.details.approval_rates_by_group[g] = Rat(Lows(g), Size(g))
       /\ metric_result.score =
            IF LargestRate.n = 0 THEN Rat(1, 1) ELSE RDiv(SmallestRate, LargestRate)
       /\ metric_result.level = "acceptable" <=> RLe(Rat(8, 10), metric_result.score)
       /\ metric_result.level = "warning" <=>
            (RLe(Rat(6, 10), metric_result.score) /\ RLt(metric_result.score, Rat(8, 10)))
       /\ metric_result.level = "critical" <=> RLt(metric_result.score, Rat(6, 10))

(***************************************************************************)
(* Seeded generation: synthetic/generator.py draws every random value from *)
(* the module random, whose sequence of draws is a function of the seed,   *)
(* and reads the wall clock with datetime.now() for the timestamp.         *)
(***************************************************************************)
\* the seeds a caller passes to random.seed
MaxSeed == 2

\* the wall clock, in ticks
MaxClock == 3

\* the calls of generate_synthetic_cases in a behaviour
MaxRuns == 2

\* argument count of the seeded calls
MaxSeededCount == 2

\* GENDERS (line 16) and AGE_GROUPS (line 18) in the order of the lists
GenderList == <<"male", "female", "non-binary", "prefer_not_to_say">>

AgeGroupList == <<<<18, 25>>, <<26, 35>>, <<36, 45>>, <<46, 55>>, <<56, 65>>, <<66, 80>>>>

\* the k-th draw after a state of random, as an integer of lo..hi: the
\* generator is deterministic, its output a function of seed and position
Draw(state, k, lo, hi) ==
    lo + ((state.seed * 7 + (state.position + k) * 13 + state.seed * (state.position + k))
            % (hi - lo + 1))

\* the draws _generate_regular_case makes for the fields kept here
DrawsPerCase == 4

\* line 58-59 and 83-107: the case of one call, made at wall clock now,
\* with the age, the timestamp and the gender
SeededRegularCase(case_id, state, now) ==
    LET age_group == AgeGroupList[Draw(state, 0, 1, Len(AgeGroupList))]
    IN [case_id |-> CaseIdStr("synthetic", case_id),
        timestamp |-> [now |-> now, days_before |-> Draw(state, 2, 0, 365)],
        applicant |-> [age |-> Draw(state, 1, age_group[1], age_group[2]),
                       gender |-> GenderList[Draw(state, 3, 1, Len(GenderList))]]]

\* the state of random after n draws
Advance(state, n) == [state EXCEPT !.position = @ + n]

\* line 51: random.shuffle, a permutation chosen by the draws
SeededShuffle(list, state) == IF Draw(state, 0, 0, 1) = 1 THEN Reverse(list) ELSE list

\* the readings of the clock in a call that makes n cases, from the clock at
\* the call on
ClockReadings(n) ==
    {nows \in [1..n -> clock..MaxClock] : \A k \in 1..(n - 1) : nows[k] <= nows[k + 1]}

\* line 26-53 with the clock readings of the calls of line 85
GenerateSeeded(n, with_edge_cases, state, nows) ==
    SeededShuffle([k \in 1..RegularCaseCount(n, with_edge_cases) |->
                      SeededRegularCase(k - 1, Advance(state, (k - 1) * DrawsPerCase), nows[k])],
                  Advance(state, RegularCaseCount(n, with_edge_cases) * DrawsPerCase))

InitRepro ==
    /\ rng \in {[seed |-> seed, position |-> 0] : seed \in 1..MaxSeed}
    /\ clock = 0
    /\ runs = <<>>
    /\ CaseIdle /\ GenIdle /\ NoiseIdle /\ ValIdle /\ ReportIdle /\ ConfIdle /\ MetricIdle
    /\ AnalyzeIdle

\* the caller seeds the generator: random.seed(seed)
SeedRandom ==
    /\ \E seed \in 1..MaxSeed : rng' = [seed |-> seed, position |-> 0]
    /\ UNCHANGED <<clock, runs, caseVars, genVars, noiseVars, valVars, reportVars, confVars,
                   metricVars, analyzeVars>>

\* time passes between two calls
Tick ==
    /\ clock < MaxClock
    /\ clock' = clock + 1
    /\ UNCHANGED <<rng, runs, caseVars, genVars, noiseVars, valVars, reportVars, confVars,
                   metricVars, analyzeVars>>

\* one call of generate_synthetic_cases
CallGenerateSeeded ==
    /\ Len(runs) < MaxRuns
    /\ \E n \in 1..MaxSeededCount, with_edge_cases \in BOOLEAN :
        \E nows \in ClockReadings(n) :
            /\ runs' = Append(runs, [start |-> rng,
                                     count |-> n,
                                     include_edge_cases |-> with_edge_cases,
                                     cases |-> GenerateSeeded(n, with_edge_cases, rng, nows)])
            /\ rng' = Advance(rng, RegularCaseCount(n, with_edge_cases) * DrawsPerCase + 1)
            /\ clock' = nows[n]
    /\ UNCHANGED <<caseVars, genVars, noiseVars, valVars, reportVars, confVars, metricVars,
                   analyzeVars>>

NextRepro == SeedRandom \/ Tick \/ CallGenerateSeeded

SpecRepro == InitRepro /\ [][NextRepro]_vars

(***************************************************************************)
(* C18: generation is reproducible: two calls of generate_synthetic_cases  *)
(* with the same count and include_edge_cases, started from the same seed, *)
(* return the same cases in the same order with every field equal, the     *)
(* timestamp included, whatever the wall clock at each call.               *)
(***************************************************************************)
C18_ReproducibleFromSeed ==
    \A i, j \in 1..Len(runs) :
        (/\ runs[i].start = runs[j].start
         /\ runs[i].count = runs[j].count
         /\ runs[i].include_edge_cases = runs[j].include_edge_cases)
        => runs[i].cases = runs[j].cases

(***************************************************************************)
(* routers/analyze.py: POST /ai_core/analyze, with the validation helper   *)
(* of utils/validation.py.                                                 *)
(***************************************************************************)
\* utils/validation.py line 3
MAX_ROWS == 100000

\* the column names of the requests
ColumnNames == {"a", "b"}

\* the lengths of the columns of the requests
RowCounts == {0, 1, 3, 4, 19, 20, MAX_ROWS, MAX_ROWS + 1}

\* a column of numbers: its length and whether its values are all equal
Columns == [rows : RowCounts, constant : BOOLEAN]

\* the values of req.data: mappings of column names to columns
DataMappings == UNION {[names -> Columns] : names \in SUBSET ColumnNames}

\* the lengths of the columns of a mapping
Lengths(data) == {data[name].rows : name \in DOMAIN data}

\* utils/validation.py line 6-37 on a mapping of names to lists; no line of
\* routers/analyze.py calls it
ValidateDatasetMapping(data) ==
    IF \E name \in DOMAIN data : data[name].rows > MAX_ROWS
    THEN [ok |-> FALSE, message |-> "column exceeds max allowed rows"]
    ELSE IF Cardinality(Lengths(data)) > 1
    THEN [ok |-> FALSE, message |-> "all columns must have the same number of rows"]
    ELSE IF Cardinality(Lengths(data)) = 0
    THEN [ok |-> FALSE, message |-> "no columns provided"]
    ELSE [ok |-> TRUE, message |-> "ok"]

\* generate_bias_demo(n): the demonstration dataset and its labels
GenerateBiasDemo(n) == [X |-> [source |-> "demo", rows |-> n], y |-> "demo"]

\* line 39-48: the frame of the request, or the demonstration dataset when
\* there is no data or pandas refuses columns of different lengths
LoadData(data) ==
    IF DOMAIN data # {} /\ Cardinality(Lengths(data)) = 1
    THEN [X |-> [source |-> "request", rows |-> CHOOSE n \in Lengths(data) : TRUE],
          y |-> None]
    ELSE GenerateBiasDemo("default")

\* line 51-59: labels for a frame without target
WithLabels(loaded) ==
    IF loaded.y # None THEN loaded
    ELSE IF loaded.X.rows < 20 THEN GenerateBiasDemo(Max(50, loaded.X.rows))
    ELSE [X |-> loaded.X, y |-> "demo"]

InitAnalyze ==
    /\ analyze_pc = "request"
    /\ req_data \in DataMappings
    /\ trained_on = <<>>
    /\ stored = <<>>
    /\ response = [status_code |-> 0]
    /\ CaseIdle /\ GenIdle /\ NoiseIdle /\ ValIdle /\ ReportIdle /\ ConfIdle /\ MetricIdle
    /\ ReproIdle

\* line 33-100: the handler
Analyze ==
    /\ analyze_pc = "request"
    /\ LET dataset == WithLabels(LoadData(req_data))
       IN /\ trained_on' = <<dataset>>
          /\ stored' = <<[summary |-> [n_rows |-> dataset.X.rows]]>>
          /\ response' = [status_code |-> 200, body |-> {"analysis_id", "summary"}]
    /\ analyze_pc' = "responded"
    /\ UNCHANGED <<req_data, caseVars, genVars, noiseVars, valVars, reportVars, confVars,
                   metricVars, reproVars>>

NextAnalyze == Analyze

SpecAnalyze == InitAnalyze /\ [][NextAnalyze]_vars

(***************************************************************************)
(* C19: the analyze endpoint rejects an invalid data mapping before any    *)
(* processing: a request whose columns have different lengths, or with a   *)
(* column of more than MAX_ROWS rows, is answered with HTTP 400 and no     *)
(* analysis is trained or stored; a mapping of columns of equal length (a  *)
(* zero-variance column included) is answered with 200 and an analysis_id  *)
(* and summary.                                                            *)
(***************************************************************************)
C19_InvalidMappingRejected ==
    analyze_pc = "responded"
    => /\ (\/ Cardinality(Lengths(req_data)) > 1
           \/ \E name \in DOMAIN req_data : req_data[name].rows > MAX_ROWS)
          => response.status_code = 400 /\ trained_on = <<>> /\ stored = <<>>
       /\ (/\ Cardinality(Lengths(req_data)) = 1
           /\ \A name \in DOMAIN req_data : req_data[name].rows <= MAX_ROWS)
          => /\ response.status_code = 200
             /\ {"analysis_id", "summary"} \subseteq response.body

\* the members of a group with credit score >= 650 and annual income >= 40000
QualifiedOf(g) ==
    {k \in 1..Len(results_original) :
        /\ HasValue(k)
        /\ results_original[k].input.applicant[sensitive_attr] = g
        /\ "financial" \in DOMAIN results_original[k].input
        /\ results_original[k].input.financial.credit_score >= 650
        /\ results_original[k].input.financial.annual_income >= 40000}

\* the rate of risk level low among the qualified members of a group, 0 for a
\* group without a qualified member
RateOfQualified(g) ==
    IF QualifiedOf(g) = {} THEN Rat(0, 1)
    ELSE Rat(Cardinality({k \in QualifiedOf(g) : results_original[k].output.risk_level = "low"}),
             Cardinality(QualifiedOf(g)))

\* the difference of the largest and the smallest rate of the groups present
RateDifference ==
    RSub(RSetMax({RateOfQualified(g) : g \in PresentGroups}),
         RSetMin({RateOfQualified(g) : g \in PresentGroups}))

(***************************************************************************)
(* C21: calculate_equal_opportunity counts only the qualified applicants   *)
(* (credit score >= 650 and annual income >= 40000) in the true-positive   *)
(* rate of a group; a group with members and no qualified member is kept   *)
(* with rate 0 and takes part in the difference; the score is              *)
(* 1 - (max rate - min rate) and the level is acceptable iff the           *)
(* difference <= 0.10, warning iff 0.10 < difference <= 0.20 and critical  *)
(* otherwise.                                                              *)
(***************************************************************************)
C21_EqualOpportunityRule ==
    (MetricReturned("calculate_equal_opportunity") /\ Cardinality(PresentGroups) >= 2)
    => /\ DOMAIN metric_result.details.tpr_by_group = PresentGroups
       /\ \A g \in PresentGroups :
            metric_result.details.tpr_by_group[g] = RateOfQualified(g)
       /\ metric_result.score = RSub(Rat(1, 1), RateDifference)
       /\ metric_result.level = "acceptable" <=> RLe(RateDifference, Rat(1, 10))
       /\ metric_result.level = "warning" <=>
            (RLt(Rat(1, 10), RateDifference) /\ RLe(RateDifference, Rat(2, 10)))
       /\ metric_result.level = "critical" <=> RLt(Rat(2, 10), RateDifference)

(***************************************************************************)
(* C22: in calculate_rule_violation_severity the violation rate is the     *)
(* fraction of the cases with at least one triggered rule: a case with     *)
(* several triggered rules counts once, so the rate never exceeds 1 and is *)
(* 1 only if every case triggered a rule; the high-risk rate is the        *)
(* fraction of the cases with risk level high.                             *)
(***************************************************************************)
C22_ViolationRateIsFractionOfCases ==
    (MetricReturned("calculate_rule_violation_severity") /\ results_original # <<>>)
    => LET n == Len(results_original)
           violating == {k \in 1..n : results_original[k].output.triggered_rules # <<>>}
           high == {k \in 1..n : results_original[k].output.risk_level = "high"}
       IN /\ metric_result.details.violation_rate = Rat(Cardinality(violating), n)
          /\ RLe(metric_result.details.violation_rate, Rat(1, 1))
          /\ metric_result.details.violation_rate = Rat(1, 1) => Cardinality(violating) = n
          /\ metric_result.details.high_risk_rate = Rat(Cardinality(high), n)

(***************************************************************************)
(* calculate_all_metrics and what validate_model does with its result.     *)
(***************************************************************************)
\* line 432-443: the keys of metrics in the order of their insertion;
\* results_noisy = <<>> stands for the empty list and for None
AllMetricNames(noisy) ==
    <<"disparate_impact_gender", "equal_opportunity_gender", "demographic_parity_gender",
      "disparate_impact_ethnicity", "equal_opportunity_ethnicity",
      "demographic_parity_ethnicity", "consistency", "rule_violations">>
    \o (IF noisy # <<>> THEN <<"stability">> ELSE <<>>)

\* line 432-443: the metric of a key
MetricOf(name, rs, noisy) ==
    CASE name = "disparate_impact_gender" -> CalculateDisparateImpact(rs, "gender")
      [] name = "equal_opportunity_gender" -> CalculateEqualOpportunity(rs, "gender")
      [] name = "demographic_parity_gender" -> CalculateDemographicParity(rs, "gender")
      [] name = "disparate_impact_ethnicity" -> CalculateDisparateImpact(rs, "ethnicity")
      [] name = "equal_opportunity_ethnicity" -> CalculateEqualOpportunity(rs, "ethnicity")
      [] name = "demographic_parity_ethnicity" -> CalculateDemographicParity(rs, "ethnicity")
      [] name = "consistency" -> CalculateConsistencyScore(rs)
      [] name = "rule_violations" -> CalculateRuleViolationSeverity(rs)
      [] name = "stability" -> CalculateStabilityScore(rs, noisy)

\* line 453-458 with the warnings looked at before the critical metrics
OverallLevelWarningFirst(critical_count, warning_count, total) ==
    IF 2 * warning_count > total THEN "warning"
    ELSE IF critical_count > 0 THEN "critical"
    ELSE "acceptable"

\* line 453-458: warning_count > len(metrics) / 2
OverallLevel(critical_count, warning_count, total) ==
    IF critical_count > 0 THEN "critical"
    ELSE IF 2 * warning_count > total THEN "warning"
    ELSE "acceptable"

\* calculate_all_metrics (line 418-467)
CalculateAllMetrics(rs, noisy) ==
    LET names == Range(AllMetricNames(noisy))
        all == [name \in names |-> MetricOf(name, rs, noisy)]
        total_score == SumOver([name \in names |-> all[name].score], names, Rat(0, 1))
        critical_count == Cardinality({name \in names : all[name].level = "critical"})
        warning_count == Cardinality({name \in names : all[name].level = "warning"})
    IN [metrics |-> all,
        overall_fairness_score |-> Rat(total_score.n, total_score.d * Cardinality(names)),
        overall_level |-> OverallLevel(critical_count, warning_count, Cardinality(names)),
        critical_metrics |-> critical_count,
        warning_metrics |-> warning_count,
        acceptable_metrics |-> Cardinality(names) - critical_count - warning_count]

\* the metrics handed to the report with the overall score as a percentage
MetricsForReportAsPercentage(all_metrics, noisy) ==
    [overall_fairness_score |-> Rat(all_metrics.overall_fairness_score.n * 100,
                                    all_metrics.overall_fairness_score.d),
     metrics |-> [k \in 1..Len(AllMetricNames(noisy)) |->
                    [metric |-> AllMetricNames(noisy)[k],
                     score |-> all_metrics.metrics[AllMetricNames(noisy)[k]].score,
                     level |-> all_metrics.metrics[AllMetricNames(noisy)[k]].level]]]

\* routers/validation.py line 197-209: the metrics as generate_validation_report
\* gets them
MetricsForReport(all_metrics, noisy) ==
    [overall_fairness_score |-> all_metrics.overall_fairness_score,
     metrics |-> [k \in 1..Len(AllMetricNames(noisy)) |->
                    [metric |-> AllMetricNames(noisy)[k],
                     score |-> all_metrics.metrics[AllMetricNames(noisy)[k]].score,
                     level |-> all_metrics.metrics[AllMetricNames(noisy)[k]].level]]]

(***************************************************************************)
(* SpecPipeline: the metrics of a list of results and the report on them,  *)
(* as validate_model chains them.                                          *)
(***************************************************************************)
\* the members of a group of the populations of SpecPipeline
MaxPipelineGroup == 3

\* the sample results of the short lists of SpecPipeline
MaxPipelineResults == 2

\* a population as Population gives, whose results that are not low are other
PopulationWith(males, low_males, females, low_females, other) ==
    [k \in 1..(males + females) |->
        SuccessResult(
            SampleCase(CaseIdStr("synthetic", k), 30,
                       IF k <= males THEN "male" ELSE "female",
                       IF k <= males THEN "caucasian" ELSE "hispanic", 50000, 700),
            IF k <= low_males \/ (k > males /\ k <= males + low_females)
            THEN LowSignal ELSE other)]

\* short lists of the sample results and two-group populations whose other
\* results are of risk level high or medium
PipelineResults ==
    UNION {[1..n -> MetricSamples] : n \in 0..MaxPipelineResults}
    \cup UNION {{PopulationWith(males, low_males, females, low_females, other) :
                    low_males \in 0..males, low_females \in 0..females,
                    other \in {HighSignal, MediumSignal}} :
                males \in 1..MaxPipelineGroup, females \in 1..MaxPipelineGroup}

\* the noisy results of the pipeline: none, the results themselves, and a
\* second pass that came out high
PipelineNoisy(rs) == {<<>>, rs, [k \in 1..Len(rs) |-> [rs[k] EXCEPT !.output = HighSignal]]}

InitPipeline ==
    /\ metric_pc = "call"
    /\ metric_fn = "none"
    /\ results_original \in PipelineResults
    /\ results_noisy = <<>>
    /\ sensitive_attr = "none"
    /\ metric_result = [metric_name |-> "none"]
    /\ CaseIdle /\ GenIdle /\ NoiseIdle /\ ValIdle /\ ReportIdle /\ ConfIdle /\ ServiceIdle

\* routers/validation.py line 192-195
CallCalculateAllMetrics ==
    /\ metric_pc = "call"
    /\ \E noisy \in PipelineNoisy(results_original) :
        /\ results_noisy' = noisy
        /\ Finish("calculate_all_metrics", CalculateAllMetrics(results_original, noisy))
    /\ UNCHANGED sensitive_attr

\* routers/validation.py line 197-225
ReportOnAllMetrics ==
    /\ MetricReturned("calculate_all_metrics")
    /\ metric_pc' = "reported"
    /\ metrics' = MetricsForReport(metric_result, results_noisy)
    /\ synthetic_stats' =
            GetDatasetStats([k \in 1..Len(results_original) |-> results_original[k].input])
    /\ summary' = ExtractValidationSummary(results_original)
    /\ report' = GenerateValidationReport(metrics', synthetic_stats', summary')
    /\ report_pc' = "returned"
    /\ UNCHANGED <<metric_fn, results_original, results_noisy, sensitive_attr, metric_result,
                   caseVars, genVars, noiseVars, valVars, confVars, serviceVars>>

NextPipeline == CallCalculateAllMetrics \/ ReportOnAllMetrics

SpecPipeline == InitPipeline /\ [][NextPipeline]_vars

\* the metrics of the returned battery at a level
BatteryAt(level) ==
    {name \in DOMAIN metric_result.metrics : metric_result.metrics[name].level = level}

(***************************************************************************)
(* C23: calculate_all_metrics always computes 8 metrics (disparate impact, *)
(* equal opportunity and demographic parity for gender and for ethnicity,  *)
(* consistency, rule violations) plus stability exactly when non-empty     *)
(* noisy results are supplied; overall_level is critical iff at least one  *)
(* metric is critical, otherwise warning iff strictly more than half of    *)
(* the metrics are warning, otherwise acceptable; and critical_metrics +   *)
(* warning_metrics + acceptable_metrics is the number of metrics.          *)
(***************************************************************************)
C23_AllMetricsBattery ==
    metric_fn = "calculate_all_metrics"
    => /\ metric_pc # "raised"
       /\ DOMAIN metric_result.metrics =
            {"disparate_impact_gender", "equal_opportunity_gender",
             "demographic_parity_gender", "disparate_impact_ethnicity",
             "equal_opportunity_ethnicity", "demographic_parity_ethnicity",
             "consistency", "rule_violations"}
            \cup (IF results_noisy # <<>> THEN {"stability"} ELSE {})
       /\ \A attr \in {"gender", "ethnicity"} :
            /\ metric_result.metrics["disparate_impact_" \o attr].metric_name
                    = "disparate_impact"
            /\ metric_result.metrics["equal_opportunity_" \o attr].metric_name
                    = "equal_opportunity"
            /\ metric_result.metrics["demographic_parity_" \o attr].metric_name
                    = "demographic_parity_gap"
       /\ metric_result.metrics["consistency"].metric_name = "consistency_score"
       /\ metric_result.metrics["rule_violations"].metric_name = "rule_violation_severity"
       /\ metric_result.overall_level = "critical" <=> BatteryAt("critical") # {}
       /\ metric_result.overall_level = "warning" <=>
            /\ BatteryAt("critical") = {}
            /\ 2 * Cardinality(BatteryAt("warning"))
                    > Cardinality(DOMAIN metric_result.metrics)
       /\ metric_result.overall_level \in {"critical", "warning", "acceptable"}
       /\ metric_result.critical_metrics = Cardinality(BatteryAt("critical"))
       /\ metric_result.warning_metrics = Cardinality(BatteryAt("warning"))
       /\ metric_result.critical_metrics + metric_result.warning_metrics
            + metric_result.acceptable_metrics = Cardinality(DOMAIN metric_result.metrics)

\* nine metrics of which seven are warning and none critical: overall warning
C23_Witness ==
    /\ MetricReturned("calculate_all_metrics")
    /\ results_noisy # <<>>
    /\ Cardinality(DOMAIN metric_result.metrics) = 9
    /\ BatteryAt("critical") = {}
    /\ Cardinality(BatteryAt("warning")) = 7
    /\ metric_result.overall_level = "warning"

(***************************************************************************)
(* C24: the dataset section of the report reflects the statistics of the   *)
(* case generator: when generate_validation_report is given the output of  *)
(* get_dataset_stats for a population, synthetic_dataset.total_cases is    *)
(* the size of the population and synthetic_dataset.edge_cases is the      *)
(* number of its cases with an edge-case tag, non-zero whenever the        *)
(* population has an edge case.                                            *)
(***************************************************************************)
C24_ReportReflectsDatasetStats ==
    val_pc = "reported"
    => LET tagged == {k \in 1..Len(synthetic_cases) :
                        "edge_case" \in DOMAIN synthetic_cases[k]}
       IN /\ pipeline_report.synthetic_dataset.total_cases = Len(synthetic_cases)
          /\ pipeline_report.synthetic_dataset.edge_cases = Cardinality(tagged)
          /\ tagged # {} => pipeline_report.synthetic_dataset.edge_cases # 0

(***************************************************************************)
(* C25: the calls run_validation makes to the decision function.  At every *)
(* moment the calls made so far are the original cases in input order,     *)
(* one call each, followed (only once every original case has been called, *)
(* raised or not) by the perturbed twins in input order, one call each;    *)
(* a second-pass call happens only with include_stability_test set and a   *)
(* non-empty case list.  On return the first pass is complete, and the     *)
(* second is complete when it was due; when it was not due there is no     *)
(* second-pass call, no noisy_results and stability_test_performed is      *)
(* false.                                                                  *)
(***************************************************************************)
C25_CallOrder ==
    LET n == Len(synthetic_cases)
        second_pass == include_stability_test /\ n > 0
    IN /\ Len(calls) <= (IF second_pass THEN 2 * n ELSE n)
       /\ \A k \in 1..Len(calls) :
            /\ k <= n => calls[k].arg = synthetic_cases[k]
            /\ k > n =>
                 /\ Len(results) = n
                 /\ calls[k].arg = noisy_cases[k - n]
                 /\ IsNoisyTwin(synthetic_cases[k - n], calls[k].arg)
       /\ Len(calls) = Len(results) + Len(noisy_results)
       /\ Returned =>
            /\ Len(calls) = (IF second_pass THEN 2 * n ELSE n)
            /\ validation_result.stability_test_performed = second_pass
            /\ ("noisy_results" \in DOMAIN validation_result) = second_pass

\* a returned run over two different cases whose first original call raised
\* and whose second pass made its two calls
C25_Witness ==
    /\ val_pc = "returned"
    /\ include_stability_test
    /\ Len(synthetic_cases) = 2
    /\ synthetic_cases[1] # synthetic_cases[2]
    /\ calls[1].raised
    /\ Len(calls) = 4
    /\ calls[3].arg # synthetic_cases[1]

\* the case returned is one of _generate_regular_case
RegularReturned == case_pc = "returned" /\ "edge_case" \notin DOMAIN case

(***************************************************************************)
(* C26: the attribute correlations of a regular generated case: an age     *)
(* under 22 has employment student, employed or unemployed; an age over 65 *)
(* has employment retired or employed; an unemployed case has economic     *)
(* status low_income or lower_middle; a retired case has economic status   *)
(* lower_middle, middle or upper_middle; an age under 22 has an education  *)
(* that is neither master nor doctorate.                                   *)
(***************************************************************************)
C26_RegularCaseCorrelations ==
    RegularReturned =>
        /\ case.applicant.age < 22 =>
             case.financial.employment_status \in {"student", "employed", "unemployed"}
        /\ case.applicant.age > 65 =>
             case.financial.employment_status \in {"retired", "employed"}
        /\ case.financial.employment_status = "unemployed" =>
             case.financial.economic_status \in {"low_income", "lower_middle"}
        /\ case.financial.employment_status = "retired" =>
             case.financial.economic_status \in {"lower_middle", "middle", "upper_middle"}
        /\ case.applicant.age < 22 =>
             case.applicant.education \notin {"master", "doctorate"}

\* a regular case of age 21 that came out unemployed
C26_Witness ==
    /\ RegularReturned
    /\ case.applicant.age = 21
    /\ case.financial.employment_status = "unemployed"
    /\ case.financial.economic_status = "lower_middle"

\* the cases of the list that _generate_edge_case produced: the ones whose
\* identifier it wrote (line 163)
EdgeProduced(s) == {k \in 1..Len(s) : s[k].case_id[1] = "synthetic_edge"}

(***************************************************************************)
(* C27: within one population, while it is built and after the final       *)
(* shuffle, all case identifiers are pairwise distinct, and a case carries *)
(* an edge-case tag if and only if edge-case generation produced it; the   *)
(* tag that edge-case generation writes is one of the seven scenario       *)
(* names.  The returned population holds every identifier the loops        *)
(* appended.                                                               *)
(***************************************************************************)
C27_DistinctIdsAndEdgeTags ==
    /\ \A j, k \in 1..Len(cases) : j # k => cases[j].case_id # cases[k].case_id
    /\ EdgeTagged(cases) = EdgeProduced(cases)
    /\ \A edge_type \in EDGE_TYPES :
         edge_type \in {"very_young_high_income", "very_old_low_income",
                        "high_income_bad_credit", "low_income_excellent_credit",
                        "multiple_disadvantages", "extreme_loan_amount",
                        "unusual_combination"}
    /\ Cardinality(EDGE_TYPES) = 7
    /\ gen_pc = "returned" =>
         /\ Cardinality(EdgeProduced(cases)) = EdgeCaseCount(count, include_edge_cases)
         /\ {cases[k].case_id : k \in 1..Len(cases)} =
              {CaseIdStr("synthetic", i) : i \in 0..(RegularCaseCount(count, include_edge_cases) - 1)}
              \cup {CaseIdStr("synthetic_edge", i) :
                      i \in RegularCaseCount(count, include_edge_cases)..(count - 1)}

\* a returned population of 12 whose shuffle put its edge case first
C27_Witness ==
    /\ gen_pc = "returned"
    /\ count = 12
    /\ cases[1].has_edge_case
    /\ cases[1].case_id = CaseIdStr("synthetic_edge", 11)
    /\ ~cases[12].has_edge_case

(***************************************************************************)
(* C28: run_validation leaves every input case unchanged: no step of a run *)
(* changes a case of the list it was given, the input of every result is   *)
(* the case at its index with the field values the case came with (nested  *)
(* ones included), and a result of the original pass, once recorded, is    *)
(* not altered by the stability pass or anything after it.                 *)
(***************************************************************************)
C28_InputCasesUnchanged ==
    /\ [](\A k \in 1..Len(results) : results[k].input = synthetic_cases[k])
    /\ [][/\ synthetic_cases' = synthetic_cases
          /\ Len(results') >= Len(results)
          /\ \A k \in 1..Len(results) : results'[k] = results[k]
          /\ "results" \in DOMAIN validation_result =>
               validation_result'.results = validation_result.results]_vars

\* a returned run with a stability pass whose noise changed the twin of the
\* first case away from the case
C28_Witness ==
    /\ val_pc = "returned"
    /\ validation_result.stability_test_performed
    /\ Len(synthetic_cases) = 2
    /\ validation_result.noisy_results[1].input # synthetic_cases[1]
    /\ validation_result.noisy_results[1].input.financial.credit_score
         # validation_result.results[1].input.financial.credit_score

\* a score on the scale from 0 to 1
UnitScore(score) == RLe(Rat(0, 1), score) /\ RLe(score, Rat(1, 1))

\* the battery of calculate_all_metrics is at hand
BatteryReturned == metric_fn = "calculate_all_metrics" /\ metric_pc \in {"returned", "reported"}

(***************************************************************************)
(* C29: every metric score of calculate_all_metrics lies in [0, 1], and so *)
(* does overall_fairness_score, their mean; the router hands that value    *)
(* unchanged to generate_validation_report, whose thresholds are 80 and    *)
(* 60: the status of the report is fail for every result population, also  *)
(* when every metric is acceptable.  Neither pass nor conditional_pass is  *)
(* reachable through the wired pipeline.                                   *)
(***************************************************************************)
C29_PipelineVerdictIsFail ==
    /\ BatteryReturned =>
         /\ \A name \in DOMAIN metric_result.metrics :
              UnitScore(metric_result.metrics[name].score)
         /\ UnitScore(metric_result.overall_fairness_score)
    /\ metric_pc = "reported" =>
         /\ metrics.overall_fairness_score = metric_result.overall_fairness_score
         /\ report.overall_score = metric_result.overall_fairness_score
         /\ report.status = "fail"
         /\ report.report_json.status = "fail"
         /\ report.status \notin {"pass", "conditional_pass"}

\* a report on a population all of whose nine metrics are acceptable: its
\* status is fail for the score, not for a critical metric
C29_Witness ==
    /\ metric_pc = "reported"
    /\ Len(results_original) >= 2
    /\ results_noisy # <<>>
    /\ BatteryAt("acceptable") = DOMAIN metric_result.metrics
    /\ metric_result.critical_metrics = 0
    /\ report.status = "fail"
    /\ report.report_json.status_reason.text
         = "Overall fairness score below acceptable threshold"

\* the report carries the message of line 170-176
SaysPassesAllChecks ==
    \E k \in 1..Len(report.recommendations) : report.recommendations[k] = PassesAllChecks

(***************************************************************************)
(* C30: the recommendation "Model passes all fairness checks" is emitted   *)
(* only when no metric is critical or warning: no report of the wired      *)
(* pipeline combines that message with a verdict of fail caused by a       *)
(* critical metric.                                                        *)
(***************************************************************************)
C30_PassMessageOnlyWithoutIssues ==
    (metric_pc = "reported" /\ SaysPassesAllChecks) =>
        /\ AtLevel("critical") = {}
        /\ AtLevel("warning") = {}
        /\ ~(/\ report.status = "fail"
             /\ report.report_json.status_reason.text = "critical fairness issue(s) detected")

====
